---- MODULE Spec2Model ----
(***************************************************************************)
(* The markdown renderer of the chat widget: parseTable and parseMarkdown  *)
(* (src/unnamed/part_000), modelled on strings.  A JavaScript string is a  *)
(* TLA+ string; the regular expressions of the source are written out as   *)
(* the scans they perform.                                                 *)
(***************************************************************************)
EXTENDS Integers, Sequences, FiniteSets

VARIABLES
    text,    \* the argument of the call of parseMarkdown
    pc,      \* where the call stands: "input" before it, then the next stage
    html,    \* the local variable html; the string returned once pc = "done"
    tables,  \* the local array tables
    fault,   \* what went wrong in the call so far (see Faults)
    chatInput,        \* the element #chatInput: its value and disabled
    sendButton,       \* the element #sendMessageBtn: its disabled
    typingIndicator,  \* the element #typingIndicator: its style.display
    chatWindow,       \* the children appended to #chatWindow, in order
    calls,            \* the calls of handleSendMessage that went past the
                      \* empty-message test, in order, each with where it stands
    sessionStorage    \* window.sessionStorage: whether it can be used, and
                      \* the item chat_session_id

\* The page outside the renderer.
chatVars == <<chatInput, sendButton, typingIndicator, chatWindow, calls, sessionStorage>>

vars == <<text, pc, html, tables, fault, chatVars>>

(***************************************************************************)
(* String helpers: the String.prototype methods the source uses.           *)
(***************************************************************************)

\* The backtick (U+0060), which a TLA+ string cannot hold: the model writes it
\* as U+0085, which it writes for no other character.
Backtick == ""

\* s.charAt(i - 1): the i-th character, "" past the end.
CharAt(s, i) == IF i >= 1 /\ i <= Len(s) THEN SubSeq(s, i, i) ELSE ""

\* s.startsWith(p, i - 1)
StartsWithAt(s, p, i) ==
    /\ i >= 1
    /\ i + Len(p) - 1 <= Len(s)
    /\ SubSeq(s, i, i + Len(p) - 1) = p

\* s.indexOf(p, from - 1) + 1: the first position >= from where p occurs, 0
\* when there is none.
IndexOf(s, p, from) ==
    LET found == {i \in from..(Len(s) - Len(p) + 1) : SubSeq(s, i, i + Len(p) - 1) = p}
    IN IF found = {} THEN 0 ELSE CHOOSE i \in found : \A j \in found : i <= j

\* s.includes(p)
Includes(s, p) == IndexOf(s, p, 1) # 0

\* The mark (U+0084) with which a code unit is spelled that the strings of
\* the model have no character for (the control characters without a name
\* here, U+007F to U+009F, the code units above U+00FF without a name here):
\* the mark and four of the letters HexMarks, which stand for the digits 0 to
\* f of the code unit. No pattern of the source names the mark or one of
\* these letters: a spelled code unit is matched where any character is, and
\* nowhere else.
OtherCharacter == ""
HexMarks == "αβγδεζηθικλμνξοπ"

\* The code unit at position i is spelled with the mark.
IsSpelled(s, i) == CharAt(s, i) = OtherCharacter

\* The code unit spelled at position i.
SpelledCode(s, i) ==
    LET Value(k) == IndexOf(HexMarks, CharAt(s, i + k), 1) - 1
    IN ((Value(1) * 16 + Value(2)) * 16 + Value(3)) * 16 + Value(4)

\* The code unit n, spelled.
Spelled(n) ==
    LET Mark(d) == SubSeq(HexMarks, d + 1, d + 1)
    IN OtherCharacter \o Mark(n \div 4096) \o Mark((n \div 256) % 16)
       \o Mark((n \div 16) % 16) \o Mark(n % 16)

\* s.length: the number of code units, a spelled one counting once.
Length(s) == Len(s) - 4 * Cardinality({i \in 1..Len(s) : IsSpelled(s, i)})

\* s.substring(0, n): the first n code units.
Substring(s, n) ==
    LET marks == {i \in 1..Len(s) : IsSpelled(s, i)}
        Units(e) == e - 4 * Cardinality({i \in marks : i + 4 <= e})
        Whole(e) == \A i \in marks : ~(i <= e /\ e < i + 4)
    IN IF Length(s) <= n THEN s
       ELSE IF marks = {} THEN SubSeq(s, 1, n)
       ELSE SubSeq(s, 1, CHOOSE e \in 0..Len(s) : Whole(e) /\ Units(e) = n)

\* The form feed (U+000C).
FormFeed == "\f"

\* The no-break space (U+00A0), the Ogham space mark (U+1680) and the byte
\* order mark (U+FEFF), written as themselves.
NoBreakSpace == " "
OghamSpace == " "
ByteOrderMark == "﻿"

\* Characters that a TLA+ string cannot hold are written as control characters
\* of the range U+0080-U+009F, which JavaScript takes neither for white space
\* nor for line terminators and which have no role of their own in the
\* renderer: the vertical tab (U+000B) as U+0080, the line separator (U+2028)
\* as U+0081, the paragraph separator (U+2029) as U+0082.
VerticalTab == ""
LineSeparator == ""
ParagraphSeparator == ""

\* The space separators U+2000 to U+200A, U+202F, U+205F and U+3000, in this
\* order, written as U+0090 to U+009D.
WideSpaceChars == ""

WideSpaces == {SubSeq(WideSpaceChars, k, k) : k \in 1..Len(WideSpaceChars)}

\* The white space of JavaScript: the class \s of the regular expressions,
\* which is also what trim() strips.
WhiteSpace ==
    {" ", "\t", "\n", "\r", VerticalTab, FormFeed, NoBreakSpace, OghamSpace,
     ByteOrderMark, LineSeparator, ParagraphSeparator} \cup WideSpaces

IsSpace(c) == c \in WhiteSpace

\* The class \d.
IsDigit(c) == c \in {"0", "1", "2", "3", "4", "5", "6", "7", "8", "9"}

\* The line terminators of ^, $ (flag m) and of "." (without flag s).
IsLineEnd(c) == c \in {"\n", "\r", LineSeparator, ParagraphSeparator}

\* The first position >= i whose character is not in the class In, Len(s) + 1
\* when there is none: where a greedy In* started at i stops.
SkipWhile(s, i, In(_)) ==
    LET others == {k \in i..Len(s) : ~In(SubSeq(s, k, k))}
    IN IF others = {} THEN Len(s) + 1 ELSE CHOOSE k \in others : \A j \in others : k <= j

\* The first position >= i that holds no white space.
SkipSpaces(s, i) == SkipWhile(s, i, IsSpace)

\* The last position <= i that holds no white space (0 when there is none).
SkipSpacesBack(s, i) ==
    LET others == {k \in 1..i : ~IsSpace(SubSeq(s, k, k))}
    IN IF others = {} THEN 0 ELSE CHOOSE k \in others : \A j \in others : k >= j

\* s.trim()
Trim(s) == SubSeq(s, SkipSpaces(s, 1), SkipSpacesBack(s, Len(s)))

RECURSIVE SplitFrom(_, _, _)
\* s.split(sep) for a one-character separator, from position from on.
SplitFrom(s, sep, from) ==
    LET i == IndexOf(s, sep, from)
    IN IF i = 0 THEN <<SubSeq(s, from, Len(s))>>
       ELSE <<SubSeq(s, from, i - 1)>> \o SplitFrom(s, sep, i + 1)

\* s.split(sep): "" splits into the one empty field.
Split(s, sep) == SplitFrom(s, sep, 1)

RECURSIVE Join(_, _)
\* parts.join(sep)
Join(parts, sep) ==
    IF Len(parts) = 0 THEN ""
    ELSE IF Len(parts) = 1 THEN parts[1]
    ELSE parts[1] \o sep \o Join(Tail(parts), sep)

RECURSIVE Concat(_)
\* The concatenation of a sequence of strings (html += ... in a loop).
Concat(parts) ==
    IF Len(parts) = 0 THEN "" ELSE parts[1] \o Concat(Tail(parts))

RECURSIVE ReplaceAllFrom(_, _, _, _)
\* s.replace(/p/g, r) for a literal p and a replacement without $ patterns.
ReplaceAllFrom(s, p, r, from) ==
    LET i == IndexOf(s, p, from)
    IN IF i = 0 THEN SubSeq(s, from, Len(s))
       ELSE SubSeq(s, from, i - 1) \o r \o ReplaceAllFrom(s, p, r, i + Len(p))

ReplaceAll(s, p, r) == ReplaceAllFrom(s, p, r, 1)

\* ECMAScript GetSubstitution for a string pattern: in the replacement, $$ is
\* "$", $& the matched text, $ with a backtick the text before the match and
\* $' the text after it; any other "$" stands for itself.
RECURSIVE Substitution(_, _, _, _, _)
Substitution(r, k, matched, before, after) ==
    LET i == IndexOf(r, "$", k)
        next == CharAt(r, i + 1)
    IN IF i = 0 THEN SubSeq(r, k, Len(r))
       ELSE IF next \in {"$", "&", Backtick, "'"}
       THEN SubSeq(r, k, i - 1)
            \o (CASE next = "$" -> "$"
                   [] next = "&" -> matched
                   [] next = Backtick -> before
                   [] OTHER -> after)
            \o Substitution(r, i + 2, matched, before, after)
       ELSE SubSeq(r, k, i) \o Substitution(r, i + 1, matched, before, after)

\* s.replace(p, r) for strings p and r: the first occurrence only.
ReplaceFirst(s, p, r) ==
    LET i == IndexOf(s, p, 1)
    IN IF i = 0 THEN s
       ELSE LET before == SubSeq(s, 1, i - 1)
                after == SubSeq(s, i + Len(p), Len(s))
            IN before \o Substitution(r, 1, p, before, after) \o after

\* The decimal digits of n, as template literals print an index.
Digits == <<"0", "1", "2", "3", "4", "5", "6", "7", "8", "9">>

RECURSIVE NumStr(_)
NumStr(n) ==
    IF n < 10 THEN Digits[n + 1] ELSE NumStr(n \div 10) \o Digits[(n % 10) + 1]

(***************************************************************************)
(* parseTable                                                              *)
(***************************************************************************)

TableOpen == "<table class=\"chat-table\">"
TableClose == "</table>"

\* line.includes('|') on the trimmed line
IsPipeLine(line) == Includes(Trim(line), "|")

\* The class [\s\|:\-]
IsSeparatorChar(c) == IsSpace(c) \/ c \in {"|", ":", "-"}

\* /^[\s\|:\-]+$/.test(line)
IsSeparator(line) ==
    Len(line) >= 1 /\ \A i \in 1..Len(line) : IsSeparatorChar(SubSeq(line, i, i))

\* The inner while loop: the first index j >= i whose line holds no pipe
\* (Len(lines) + 1 when every line from i on holds one).
RunEnd(lines, i) ==
    LET others == {j \in i..Len(lines) : ~IsPipeLine(lines[j])}
    IN IF others = {} THEN Len(lines) + 1 ELSE CHOOSE j \in others : \A k \in others : j <= k

\* row.split('|').map(cell => cell.trim()).filter(cell => cell !== '')
Cells(row) ==
    LET fields == Split(row, "|")
    IN SelectSeq([k \in 1..Len(fields) |-> Trim(fields[k])], LAMBDA c : c # "")

\* A data row rendered without the test cells.length > 0.
DataRowHtmlKeepsEmpty(row) ==
    "<tr>" \o Concat([k \in 1..Len(Cells(row)) |-> "<td>" \o Cells(row)[k] \o "</td>"])
    \o "</tr>"

\* The <tr> of one data row; a row without cells gives nothing.
DataRowHtml(row) ==
    LET cells == Cells(row)
    IN IF Len(cells) > 0
       THEN "<tr>" \o Concat([k \in 1..Len(cells) |-> "<td>" \o cells[k] \o "</td>"]) \o "</tr>"
       ELSE ""

\* The index of the first data row in tableLines (k = 2 in the 0-based source).
FirstDataRow == 3

\* The html built for a valid table from its trimmed lines.
TableHtml(tableLines) ==
    LET headerCells == Cells(tableLines[1])
    IN TableOpen
       \o "<thead><tr>"
       \o Concat([k \in 1..Len(headerCells) |-> "<th>" \o headerCells[k] \o "</th>"])
       \o "</tr></thead>"
       \o "<tbody>"
       \o Concat([k \in 1..(Len(tableLines) - FirstDataRow + 1) |->
                     DataRowHtml(tableLines[k + FirstDataRow - 1])])
       \o "</tbody></table>"

\* The least number of lines of a table: header, separator, one data row.
MinTableLines == 3

\* The test of the run collected from line i on: tableLines.length >= 3 and
\* tableLines[1] is a separator.
IsValidTable(tableLines) ==
    Len(tableLines) >= MinTableLines /\ IsSeparator(tableLines[2])

\* The trimmed line pushed in place of the line.
TextItemTrimmed(lines, i) ==
    [table |-> FALSE, first |-> i, last |-> i, str |-> Trim(lines[i])]

\* result.push(lines[i]): the line as it is, standing for itself.
TextItem(lines, i) == [table |-> FALSE, first |-> i, last |-> i, str |-> lines[i]]

RECURSIVE TableItems(_, _)
\* The outer while loop from index i on: what is pushed on result, each item
\* with the input lines first..last it stands for.
TableItems(lines, i) ==
    IF i > Len(lines) THEN <<>>
    ELSE IF IsPipeLine(lines[i])
    THEN LET j == RunEnd(lines, i)
             tableLines == [k \in 1..(j - i) |-> Trim(lines[i + k - 1])]
         IN IF IsValidTable(tableLines)
            THEN <<[table |-> TRUE, first |-> i, last |-> j - 1,
                    str |-> TableHtml(tableLines)]>> \o TableItems(lines, j)
            ELSE <<TextItem(lines, i)>> \o TableItems(lines, i + 1)
    ELSE <<TextItem(lines, i)>> \o TableItems(lines, i + 1)

\* parseTable(text); failed: an exception was raised inside its try block,
\* which its catch turns into the unchanged text.
ParseTable(t, failed) ==
    IF failed THEN t
    ELSE LET items == TableItems(Split(t, "\n"), 1)
         IN Join([k \in 1..Len(items) |-> items[k].str], "\n")

(***************************************************************************)
(* parseMarkdown: the stages of its try block, in order.                   *)
(***************************************************************************)

\* The token put in place of the n-th protected table (n from 0).
Placeholder(n) == "<!---TABLE-PLACEHOLDER-" \o NumStr(n) \o "--->"

\* The same token once the escaping stage has run over it.
EscapedPlaceholder(n) == "&lt;!---TABLE-PLACEHOLDER-" \o NumStr(n) \o "---&gt;"

\* The paragraph-exempt marker of the n-th table.
TableMarker(n) == "###TABLE" \o NumStr(n) \o "###"

RECURSIVE ProtectFrom(_, _, _)
\* html.replace(/<table class="chat-table">[\s\S]*?<\/table>/g, match => ...)
\* from position from on, tbls holding the matches pushed so far: the text
\* with each match replaced by its placeholder, and the tables array.
ProtectFrom(s, from, tbls) ==
    LET i == IndexOf(s, TableOpen, from)
        c == IF i = 0 THEN 0 ELSE IndexOf(s, TableClose, i + Len(TableOpen))
    IN IF c = 0 THEN [html |-> SubSeq(s, from, Len(s)), tables |-> tbls]
       ELSE LET stop == c + Len(TableClose)
                rest == ProtectFrom(s, stop, Append(tbls, SubSeq(s, i, stop - 1)))
            IN [html |-> SubSeq(s, from, i - 1) \o Placeholder(Len(tbls)) \o rest.html,
                tables |-> rest.tables]

ProtectTables(s) == ProtectFrom(s, 1, <<>>)

\* html.replace(/&/g, '&amp;').replace(/</g, '&lt;').replace(/>/g, '&gt;')
EscapeHtml(s) == ReplaceAll(ReplaceAll(ReplaceAll(s, "&", "&amp;"), "<", "&lt;"), ">", "&gt;")

\* The fence of a code block: three backticks.
Fence == Backtick \o Backtick \o Backtick

RECURSIVE CodeBlocksFrom(_, _)
\* html.replace(/(fence)([\s\S]*?)(fence)/g, '<pre><code>$1</code></pre>')
CodeBlocksFrom(s, from) ==
    LET i == IndexOf(s, Fence, from)
        c == IF i = 0 THEN 0 ELSE IndexOf(s, Fence, i + Len(Fence))
    IN IF c = 0 THEN SubSeq(s, from, Len(s))
       ELSE SubSeq(s, from, i - 1)
            \o "<pre><code>" \o SubSeq(s, i + Len(Fence), c - 1) \o "</code></pre>"
            \o CodeBlocksFrom(s, c + Len(Fence))

CodeBlocks(s) == CodeBlocksFrom(s, 1)

RECURSIVE SpansFrom(_, _, _, _, _)
\* html.replace(/D([^d]+)D/g, open + '$1' + close), D the delimiter (the
\* character d once or twice): D, then one or more characters other than d,
\* then D again. A failed attempt at i is followed by one at i + 1.
SpansFrom(s, D, opening, closing, from) ==
    LET d == SubSeq(D, 1, 1)
        i == IndexOf(s, D, from)
        a == i + Len(D)
        j == IF i = 0 \/ a > Len(s) \/ SubSeq(s, a, a) = d THEN 0 ELSE IndexOf(s, d, a)
    IN IF i = 0 THEN SubSeq(s, from, Len(s))
       ELSE IF j # 0 /\ StartsWithAt(s, D, j)
       THEN SubSeq(s, from, i - 1) \o opening \o SubSeq(s, a, j - 1) \o closing
            \o SpansFrom(s, D, opening, closing, j + Len(D))
       ELSE SubSeq(s, from, i) \o SpansFrom(s, D, opening, closing, i + 1)

\* html.replace(/(backtick)([^(backtick)]+)(backtick)/g, '<code>$1</code>')
InlineCode(s) == SpansFrom(s, Backtick, "<code>", "</code>", 1)

\* The bold replacement left out, so that the italic one runs first.
BoldSkipped(s) == s

\* html.replace(/\*\*([^*]+)\*\*/g, '<strong>$1</strong>')
Bold(s) == SpansFrom(s, "**", "<strong>", "</strong>", 1)

\* html.replace(/\*([^*]+)\*/g, '<em>$1</em>'), then the same with _
Italic(s) == SpansFrom(SpansFrom(s, "*", "<em>", "</em>", 1), "_", "<em>", "</em>", 1)

\* The first position >= i that holds a line terminator (Len(s) + 1: none).
LineEndFrom(s, i) == SkipWhile(s, i, LAMBDA c : ~IsLineEnd(c))

RECURSIVE LinesFrom(_, _)
\* The lines of s as ^ and $ (flag m) see them, each with its terminator.
LinesFrom(s, from) ==
    LET e == LineEndFrom(s, from)
    IN IF e > Len(s) THEN <<[body |-> SubSeq(s, from, Len(s)), term |-> ""]>>
       ELSE <<[body |-> SubSeq(s, from, e - 1), term |-> SubSeq(s, e, e)]>>
            \o LinesFrom(s, e + 1)

\* html.replace(/^...$/gm, ...) for a pattern that, matching, matches a whole
\* line ("." stops at a line terminator and $ asks for one): Rewrite gives
\* each line's replacement, the line itself when the pattern does not match.
MapLines(Rewrite(_), s) ==
    LET ls == LinesFrom(s, 1)
    IN Concat([k \in 1..Len(ls) |-> Rewrite(ls[k].body) \o ls[k].term])

\* /^---+$/ -> '<hr>'
RuleLine(line) ==
    IF Len(line) >= 3 /\ \A i \in 1..Len(line) : SubSeq(line, i, i) = "-"
    THEN "<hr>" ELSE line

\* /^prefix(.+)$/ -> opening + '$1' + closing
PrefixedLine(line, prefix, opening, closing) ==
    IF StartsWithAt(line, prefix, 1) /\ Len(line) > Len(prefix)
    THEN opening \o SubSeq(line, Len(prefix) + 1, Len(line)) \o closing
    ELSE line

\* /^&gt; (.+)$/ -> '<blockquote>$1</blockquote>'
QuoteLine(line) == PrefixedLine(line, "&gt; ", "<blockquote>", "</blockquote>")

H3Line(line) == PrefixedLine(line, "### ", "<h3>", "</h3>")
H2Line(line) == PrefixedLine(line, "## ", "<h2>", "</h2>")
H1Line(line) == PrefixedLine(line, "# ", "<h1>", "</h1>")

\* The three header replacements, most specific first.
Headers(s) == MapLines(H1Line, MapLines(H2Line, MapLines(H3Line, s)))

\* The first position >= i that holds no digit.
SkipDigits(s, i) == SkipWhile(s, i, IsDigit)

OlItemOpen == "<li class=\"ol-item\">"
UlItemOpen == "<li class=\"ul-item\">"
ItemClose == "</li>"

\* /^\d+\. (.+)$/ -> '<li class="ol-item">$1</li>'
OrderedLine(line) ==
    LET d == SkipDigits(line, 1)
    IN IF d > 1 /\ StartsWithAt(line, ". ", d) /\ Len(line) > d + 1
       THEN OlItemOpen \o SubSeq(line, d + 2, Len(line)) \o ItemClose
       ELSE line

\* /^[*-] (.+)$/ -> '<li class="ul-item">$1</li>'
UnorderedLine(line) ==
    IF (StartsWithAt(line, "* ", 1) \/ StartsWithAt(line, "- ", 1)) /\ Len(line) > 2
    THEN UlItemOpen \o SubSeq(line, 3, Len(line)) \o ItemClose
    ELSE line

RECURSIVE ItemsEnd(_, _, _)
\* (?:opener.*?<\/li>\s*)+ with flag s, tried at an opener at pos: the position
\* after the match, 0 when there is none. Each round runs to the first </li>
\* and over the white space after it; a further round needs an opener there.
ItemsEnd(s, opener, pos) ==
    LET c == IndexOf(s, ItemClose, pos + Len(opener))
        e == SkipSpaces(s, c + Len(ItemClose))
        more == IF StartsWithAt(s, opener, e) THEN ItemsEnd(s, opener, e) ELSE 0
    IN IF c = 0 THEN 0 ELSE IF more # 0 THEN more ELSE e

RECURSIVE WrapItemsFrom(_, _, _, _, _)
\* html.replace(/((?:opener.*?<\/li>\s*)+)/gs, opening + '$1' + closing)
WrapItemsFrom(s, opener, opening, closing, from) ==
    LET i == IndexOf(s, opener, from)
        e == IF i = 0 THEN 0 ELSE ItemsEnd(s, opener, i)
    IN IF e = 0 THEN SubSeq(s, from, Len(s))
       ELSE SubSeq(s, from, i - 1) \o opening \o SubSeq(s, i, e - 1) \o closing
            \o WrapItemsFrom(s, opener, opening, closing, e)

\* Wrap ordered list items in <ol>, then drop the class.
WrapOrdered(s) ==
    ReplaceAll(WrapItemsFrom(s, OlItemOpen, "<ol>", "</ol>", 1), "class=\"ol-item\"", "")

\* Wrap unordered list items in <ul>, then drop the class.
WrapUnordered(s) ==
    ReplaceAll(WrapItemsFrom(s, UlItemOpen, "<ul>", "</ul>", 1), "class=\"ul-item\"", "")

RECURSIVE PlaceMarkers(_, _, _)
\* tables.forEach((table, index) => html = html.replace(escaped placeholder,
\* '\n\n###TABLEindex###\n\n')) from the k-th table (k from 1) on.
PlaceMarkers(s, n, k) ==
    IF k > n THEN s
    ELSE PlaceMarkers(ReplaceFirst(s, EscapedPlaceholder(k - 1),
                                   "\n\n" \o TableMarker(k - 1) \o "\n\n"), n, k + 1)

SkipNewlines(s, i) == SkipWhile(s, i, LAMBDA c : c = "\n")

RECURSIVE BreaksFrom(_, _)
\* html.replace(/\n\n+/g, '</p><p>')
BreaksFrom(s, from) ==
    LET i == IndexOf(s, "\n\n", from)
    IN IF i = 0 THEN SubSeq(s, from, Len(s))
       ELSE SubSeq(s, from, i - 1) \o "</p><p>" \o BreaksFrom(s, SkipNewlines(s, i))

\* Paragraphs: double line breaks, single line breaks, the outer <p>.
Paragraphs(s) == "<p>" \o ReplaceAll(BreaksFrom(s, 1), "\n", "<br>") \o "</p>"

RECURSIVE UnwrapMarkersFrom(_, _)
\* html.replace(/<p>###TABLE(\d+)###<\/p>/g, '###TABLE$1###')
UnwrapMarkersFrom(s, from) ==
    LET i == IndexOf(s, "<p>###TABLE", from)
        a == i + Len("<p>###TABLE")
        d == SkipDigits(s, a)
    IN IF i = 0 THEN SubSeq(s, from, Len(s))
       ELSE IF d > a /\ StartsWithAt(s, "###</p>", d)
       THEN SubSeq(s, from, i - 1) \o "###TABLE" \o SubSeq(s, a, d - 1) \o "###"
            \o UnwrapMarkersFrom(s, d + Len("###</p>"))
       ELSE SubSeq(s, from, i) \o UnwrapMarkersFrom(s, i + 1)

\* The digits of h[123].
HeaderLevels == {"1", "2", "3"}

RECURSIVE HeaderOpenFrom(_, _)
\* html.replace(/<p>(<h[123]>)/g, '$1')
HeaderOpenFrom(s, from) ==
    LET i == IndexOf(s, "<p><h", from)
    IN IF i = 0 THEN SubSeq(s, from, Len(s))
       ELSE IF CharAt(s, i + 5) \in HeaderLevels /\ CharAt(s, i + 6) = ">"
       THEN SubSeq(s, from, i - 1) \o SubSeq(s, i + 3, i + 6) \o HeaderOpenFrom(s, i + 7)
       ELSE SubSeq(s, from, i) \o HeaderOpenFrom(s, i + 1)

RECURSIVE HeaderCloseFrom(_, _)
\* html.replace(/(<\/h[123]>)<\/p>/g, '$1')
HeaderCloseFrom(s, from) ==
    LET i == IndexOf(s, "</h", from)
    IN IF i = 0 THEN SubSeq(s, from, Len(s))
       ELSE IF CharAt(s, i + 3) \in HeaderLevels /\ StartsWithAt(s, "></p>", i + 4)
       THEN SubSeq(s, from, i + 4) \o HeaderCloseFrom(s, i + 9)
       ELSE SubSeq(s, from, i) \o HeaderCloseFrom(s, i + 1)

\* The clean-up around tables and block elements left out.
CleanBlocksSkipped(s) == s

\* Clean up paragraphs around tables and block elements.
CleanBlocks(s) ==
    LET s1 == UnwrapMarkersFrom(s, 1)
        s2 == HeaderOpenFrom(s1, 1)
        s3 == HeaderCloseFrom(s2, 1)
        s4 == ReplaceAll(s3, "<p><hr></p>", "<hr>")
        s5 == ReplaceAll(s4, "<p><blockquote>", "<blockquote>")
        s6 == ReplaceAll(s5, "</blockquote></p>", "</blockquote>")
        s7 == ReplaceAll(s6, "<p><ul>", "<ul>")
        s8 == ReplaceAll(s7, "</ul></p>", "</ul>")
        s9 == ReplaceAll(s8, "<p><ol>", "<ol>")
        s10 == ReplaceAll(s9, "</ol></p>", "</ol>")
        s11 == ReplaceAll(s10, "<p><pre>", "<pre>")
    IN ReplaceAll(s11, "</pre></p>", "</pre>")

RECURSIVE BlankParagraphsFrom(_, _)
\* html.replace(/<p>\s*<\/p>/g, '')
BlankParagraphsFrom(s, from) ==
    LET i == IndexOf(s, "<p>", from)
        e == SkipSpaces(s, i + 3)
    IN IF i = 0 THEN SubSeq(s, from, Len(s))
       ELSE IF StartsWithAt(s, "</p>", e)
       THEN SubSeq(s, from, i - 1) \o BlankParagraphsFrom(s, e + 4)
       ELSE SubSeq(s, from, i) \o BlankParagraphsFrom(s, i + 1)

\* Clean up empty paragraphs.
CleanEmpty(s) ==
    ReplaceAll(BlankParagraphsFrom(ReplaceAll(s, "<p></p>", ""), 1), "<p><br></p>", "")

RECURSIVE RestoreTables(_, _, _)
\* tables.forEach((table, index) => html = html.replace(marker, table)) from
\* the k-th table (k from 1) on; the table is a replacement string.
RestoreTables(s, tbls, k) ==
    IF k > Len(tbls) THEN s
    ELSE RestoreTables(ReplaceFirst(s, TableMarker(k - 1), tbls[k]), tbls, k + 1)

\* The string the catch block builds: the text with < and > replaced, in one
\* paragraph.
Fallback(t) == "<p>" \o ReplaceAll(ReplaceAll(t, "<", "&lt;"), ">", "&gt;") \o "</p>"

\* A catch block that passes the exception on to the caller.
CatchBlockRethrows(t) == [pc |-> "thrown", html |-> ""]

\* The catch block of parseMarkdown: the call returns the fallback string.
CatchBlock(t) == [pc |-> "done", html |-> Fallback(t)]

\* What may go wrong in a call: nothing, an exception raised inside parseTable's
\* try block, or one raised by a later statement of parseMarkdown's try block.
Faults == {"none", "parseTable", "pipeline"}

\* The statements of parseMarkdown's try block after the call of parseTable,
\* in order, and the return.
Stages == <<"protect", "escape", "code", "emphasis", "blocks", "items", "lists",
            "markers", "paragraphs", "cleanup", "empty", "restore", "done">>

\* What the statement at stage makes of html (the tables array aside).
StageResult(stage, s, tbls) ==
    CASE stage = "escape" -> EscapeHtml(s)
      [] stage = "code" -> InlineCode(CodeBlocks(s))
      [] stage = "emphasis" -> Italic(Bold(s))
      [] stage = "blocks" -> Headers(MapLines(QuoteLine, MapLines(RuleLine, s)))
      [] stage = "items" -> MapLines(UnorderedLine, MapLines(OrderedLine, s))
      [] stage = "lists" -> WrapUnordered(WrapOrdered(s))
      [] stage = "markers" -> PlaceMarkers(s, Len(tbls), 1)
      [] stage = "paragraphs" -> Paragraphs(s)
      [] stage = "cleanup" -> CleanBlocks(s)
      [] stage = "empty" -> CleanEmpty(s)
      [] stage = "restore" -> RestoreTables(s, tbls, 1)

\* The stage after the k-th.
StageAfter(stage) == Stages[(CHOOSE k \in 1..Len(Stages) : Stages[k] = stage) + 1]

(***************************************************************************)
(* The state machine: an input text is put together line by line, then     *)
(* parseMarkdown(text) runs statement by statement.                        *)
(***************************************************************************)

\* The most lines of an input text.
MaxLines == 4

\* The lines the input texts are made of: a blank line, a text line, a header,
\* a table row with markup in its cells, a separator row, a list item.
Lines == {"", "x", "# T", "<b>|&", "-|-", "- *y*"}

\* Lines for parseTable: a row of two cells, a separator, a row without cells,
\* a text line with white space around it, a row with an empty inner field, a
\* separator with a form feed in it.
TableLines == {"a|b", "|-|", " | ", " x ", " |c||d", "|-\f|"}

\* Lines that spell the markup of a table, without and with a pipe.
LiteralLines ==
    { "x", "-|-",
      "<table class=\"chat-table\"><i></table>",
      "|<table class=\"chat-table\"></table>" }

NumLines(t) == Len(Split(t, "\n"))

\* The page once loaded (the DOMContentLoaded listener of the chat has run):
\* the controls enabled, the input empty, nothing in the chat window, no
\* session id stored; usable says whether sessionStorage can be used in this
\* page.
PageLoaded(usable) ==
    /\ chatInput = [value |-> "", disabled |-> FALSE]
    /\ sendButton = [disabled |-> FALSE]
    /\ typingIndicator = "none"
    /\ chatWindow = <<>>
    /\ calls = <<>>
    /\ sessionStorage = [usable |-> usable, chat_session_id |-> ""]

\* Before the call, with a first line of input.
Start(first) ==
    /\ text \in first
    /\ pc = "input"
    /\ html = ""
    /\ tables = <<>>
    /\ fault = "none"
    /\ PageLoaded(TRUE)

\* One more line of input.
AddLine(l) ==
    /\ pc = "input"
    /\ NumLines(text) < MaxLines
    /\ text' = text \o "\n" \o l
    /\ UNCHANGED <<pc, html, tables, fault, chatVars>>

\* parseMarkdown(text) is called: html = text; html = parseTable(html), in
\* which an exception may be raised and caught.
ExtractTables(failed) ==
    /\ pc = "input"
    /\ pc' = "protect"
    /\ html' = ParseTable(text, failed)
    /\ fault' = IF failed THEN "parseTable" ELSE "none"
    /\ UNCHANGED <<text, tables, chatVars>>

\* const tables = []; html = html.replace(/<table ...>...<\/table>/g, ...)
Protect ==
    /\ pc = "protect"
    /\ LET protected == ProtectTables(html)
       IN /\ html' = protected.html
          /\ tables' = protected.tables
    /\ pc' = StageAfter(pc)
    /\ UNCHANGED <<text, fault, chatVars>>

\* One of the statements html = html.replace(...) that follow.
Stage ==
    /\ pc \in {Stages[k] : k \in 2..(Len(Stages) - 1)}
    /\ html' = StageResult(pc, html, tables)
    /\ pc' = StageAfter(pc)
    /\ UNCHANGED <<text, tables, fault, chatVars>>

\* A statement of the try block raises and the catch block runs.
Catch ==
    /\ pc \in {Stages[k] : k \in 1..(Len(Stages) - 1)}
    /\ pc' = CatchBlock(text).pc
    /\ html' = CatchBlock(text).html
    /\ tables' = <<>>
    /\ fault' = "pipeline"
    /\ UNCHANGED <<text, chatVars>>

\* The statements of parseMarkdown after the call of parseTable.
Pipeline == Protect \/ Stage \/ Catch

Init == Start(Lines)

Next ==
    \/ \E l \in Lines : AddLine(l)
    \/ \E failed \in BOOLEAN : ExtractTables(failed)
    \/ Pipeline

Spec == Init /\ [][Next]_vars

\* parseMarkdown on texts that spell table markup.
InitLiteral == Start(LiteralLines)

NextLiteral ==
    \/ \E l \in LiteralLines : AddLine(l)
    \/ \E failed \in BOOLEAN : ExtractTables(failed)
    \/ Pipeline

SpecLiteral == InitLiteral /\ [][NextLiteral]_vars

\* parseTable alone: the call stops once parseTable has returned.
InitTable == Start(TableLines)

NextTable ==
    \/ \E l \in TableLines : AddLine(l)
    \/ \E failed \in BOOLEAN : ExtractTables(failed)

SpecTable == InitTable /\ [][NextTable]_vars

\* The most blocks of an input text made of blocks.
MaxBlocks == 3

\* One more block of input, a blank line before it (the blocks hold no blank
\* line themselves).
AddBlock(b) ==
    /\ pc = "input"
    /\ Len(SplitFrom(ReplaceAll(text, "\n\n", "\r"), "\r", 1)) < MaxBlocks
    /\ text' = text \o "\n\n" \o b
    /\ UNCHANGED <<pc, html, tables, fault, chatVars>>

\* Blocks set apart by blank lines: paragraphs of plain text of one and of two
\* lines, headers, a valid pipe table, a paragraph with a line separator
\* (U+2028) in it.
Blocks ==
    {"x", "y\nz", "# T", "## U", "a|b\n|-|\nc|d", "v" \o LineSeparator \o "w"}

InitBlocks == Start(Blocks)

NextBlocks ==
    \/ \E b \in Blocks : AddBlock(b)
    \/ \E failed \in BOOLEAN : ExtractTables(failed)
    \/ Pipeline

SpecBlocks == InitBlocks /\ [][NextBlocks]_vars

\* Blocks that spell the tokens of the renderer: the marker and the
\* placeholder of the first table, the markup of a table; a text block and a
\* valid pipe table.
TokenBlocks ==
    { "x", "a|b\n|-|\nc|d",
      "###TABLE0###",
      "<!---TABLE-PLACEHOLDER-0--->",
      "<table class=\"chat-table\"><i></table>" }

InitTokens == Start(TokenBlocks)

NextTokens ==
    \/ \E b \in TokenBlocks : AddBlock(b)
    \/ \E failed \in BOOLEAN : ExtractTables(failed)
    \/ Pipeline

SpecTokens == InitTokens /\ [][NextTokens]_vars

\* Table rows whose cells hold markdown and replacement patterns: emphasis and
\* a header mark, $& and $$, the text of a closing table tag; a separator and
\* a text line.
CellLines == {"x", "|-|", "*c*|_d_|# e", "$&|b", "a|$$", "a|</table>"}

InitCells == Start(CellLines)

NextCells ==
    \/ \E l \in CellLines : AddLine(l)
    \/ \E failed \in BOOLEAN : ExtractTables(failed)
    \/ Pipeline

SpecCells == InitCells /\ [][NextCells]_vars

\* Lines with bold spans: one span of each delimiter, two spans on a line.
BoldLines == {"x", "**t**", "__t__", "**t** and **u**", "__t__ and __u__"}

InitBold == Start(BoldLines)

NextBold ==
    \/ \E l \in BoldLines : AddLine(l)
    \/ \E failed \in BOOLEAN : ExtractTables(failed)
    \/ Pipeline

SpecBold == InitBold /\ [][NextBold]_vars

\* Lines that mix one italic span *a* and one bold span **b**, in both orders,
\* apart (with and without text around them) and side by side, and a line
\* that is one bold span **x**.
EmphasisLines == {"**x**", "*a* **b**", "w **b**, *a*!", "*a***b**", "**b***a*"}

InitEmphasis == Start(EmphasisLines)

NextEmphasis ==
    \/ \E l \in EmphasisLines : AddLine(l)
    \/ \E failed \in BOOLEAN : ExtractTables(failed)
    \/ Pipeline

SpecEmphasis == InitEmphasis /\ [][NextEmphasis]_vars

\* List lines of both unordered markers and of the ordered form, a text line
\* and a blank line.
ListLines == {"", "x", "- a", "* b", "1. c"}

InitLists == Start(ListLines)

NextLists ==
    \/ \E l \in ListLines : AddLine(l)
    \/ \E failed \in BOOLEAN : ExtractTables(failed)
    \/ Pipeline

SpecLists == InitLists /\ [][NextLists]_vars

\* Lines of fenced code: a fence alone, a line with a span between single
\* backticks, a text line, a fenced block on one line.
CodeLines == {Fence, Backtick \o "b" \o Backtick, "x", Fence \o "c" \o Fence}

InitCode == Start(CodeLines)

NextCode ==
    \/ \E l \in CodeLines : AddLine(l)
    \/ \E failed \in BOOLEAN : ExtractTables(failed)
    \/ Pipeline

SpecCode == InitCode /\ [][NextCode]_vars

(***************************************************************************)
(* The chat: sendMessageToAI, addChatMessage, handleSendMessage and the     *)
(* listeners of the send button and of the input.  JavaScript runs each     *)
(* piece of code to its next await before anything else runs; while         *)
(* parseMarkdown runs (pc is not "idle") nothing else does.                 *)
(***************************************************************************)

\* const MAX_MESSAGE_LENGTH = 2000
MAX_MESSAGE_LENGTH == 2000

\* The message put in the payload: cut to MAX_MESSAGE_LENGTH code units, with
\* an ellipsis, when it is longer.
MessageToSend(userMessage) ==
    IF Length(userMessage) > MAX_MESSAGE_LENGTH
    THEN Substring(userMessage, MAX_MESSAGE_LENGTH) \o "..."
    ELSE userMessage

\* 'session_' + Date.now() + '_' + Math.random()...: the time and the random
\* part are whatever they are at the call; the model writes one value.
NewSessionId == "session_now_random"

\* getOrCreateSessionId() on the storage: where sessionStorage cannot be used
\* its methods throw; else the stored id is returned, a new one being stored
\* first when there is none.
GetOrCreateSessionId(storage) ==
    IF ~storage.usable THEN [threw |-> TRUE, sessionId |-> "", storage |-> storage]
    ELSE IF storage.chat_session_id = ""
    THEN [threw |-> FALSE, sessionId |-> NewSessionId,
          storage |-> [storage EXCEPT !.chat_session_id = NewSessionId]]
    ELSE [threw |-> FALSE, sessionId |-> storage.chat_session_id, storage |-> storage]

\* const payload = {...} (the timestamp aside)
Payload(messageToSend, sessionId) ==
    [source |-> "mental-wellness-frontend", message |-> messageToSend,
     event |-> "chat_message", sessionId |-> sessionId]

\* The string returned from the outer catch block.
FallbackReply ==
    "I'm having trouble connecting right now. But I'm here for you. Would you like to try again?"

\* The four code units that end the token-limit reply in the file (the bytes
\* of a blue heart, read one character per byte): U+00F0, U+0178, U+2019 and
\* U+2122.
BlueHeart == "ð" \o Spelled(376) \o Spelled(8217) \o Spelled(8482)

\* The string returned for a token-limit error.
TokenLimitReply ==
    "Your message is a bit too detailed for me to process right now. "
    \o "Could you try asking in a shorter, more concise way? I'm here to help! "
    \o BlueHeart

\* Bodies of a response: an object with a message field, an object without
\* one (written after a space), a JSON string, text that is no JSON, nothing,
\* an object whose message field is a number, an array, null, an object with
\* a number of twenty digits and an escaped control character; two error
\* texts.
BodyReply == "{\"response\":\"**hi**\"}"
BodyOther == " {\"id\":\"1\"}"
BodyString == "\"hey\""
BodyPlain == "hello"
BodyEmpty == ""
BodyNumber == "{\"response\":0,\"message\":5}"
BodyArray == "[1]"
BodyNull == "null"
BodyLong == "{\"total\":12345678901234567890,\"note\":\"\\u0001\"}"
BodyTooLarge == "Request too large"
BodyError == "Internal error"

\* The responses fetch may resolve with.
Responses ==
    { [ok |-> TRUE, body |-> BodyReply], [ok |-> TRUE, body |-> BodyOther],
      [ok |-> TRUE, body |-> BodyString], [ok |-> TRUE, body |-> BodyPlain],
      [ok |-> TRUE, body |-> BodyEmpty], [ok |-> TRUE, body |-> BodyNumber],
      [ok |-> TRUE, body |-> BodyArray], [ok |-> TRUE, body |-> BodyNull],
      [ok |-> TRUE, body |-> BodyLong],
      [ok |-> FALSE, body |-> BodyTooLarge], [ok |-> FALSE, body |-> BodyError] }

\* No response yet.
NoResponse == [ok |-> FALSE, body |-> ""]

(***************************************************************************)
(* JSON.parse and JSON.stringify, on the values of JSON.                   *)
(***************************************************************************)

\* The backspace (U+0008), written as U+0083.
Backspace == ""

\* The values of JSON, and undefined (a property that is not there).
JsonNull == [type |-> "null"]
JsonUndefined == [type |-> "undefined"]
JsonBoolean(b) == [type |-> "boolean", bool |-> b]
JsonString(str) == [type |-> "string", str |-> str]
JsonArray(items) == [type |-> "array", items |-> items]

\* A number: its sign, its significant digits (no zero at either end, none
\* for zero) and the power of ten n such that its size is 0.digits * 10^n;
\* finite is FALSE for a size beyond the largest double (Infinity).
JsonFinite(neg, digits, n) ==
    [type |-> "number", neg |-> neg, digits |-> digits, exp |-> n, finite |-> TRUE]

JsonInfinity(neg) ==
    [type |-> "number", neg |-> neg, digits |-> "", exp |-> 0, finite |-> FALSE]

\* An object: its keys in the order of their first occurrence and their
\* values.
JsonObject(keys, values) == [type |-> "object", keys |-> keys, values |-> values]

\* The SyntaxError JSON.parse throws.
SyntaxError == [type |-> "SyntaxError"]

\* A parse that failed.
Failed == [value |-> SyntaxError, next |-> 0]

\* The white space of a JSON text.
IsJsonSpace(c) == c \in {" ", "\t", "\n", "\r"}

SkipJsonSpaces(s, i) == SkipWhile(s, i, IsJsonSpace)

\* The first position >= i that holds no digit.
DigitsEnd(s, i) == SkipWhile(s, i, IsDigit)

\* The value of a digit.
DigitValue(c) == IndexOf("0123456789", c, 1) - 1

\* The largest exponent read digit by digit; a longer one counts as this.
ExponentCap == 99999

RECURSIVE NatOf(_, _)
\* The number written by the digits ds, acc being the value read so far, no
\* more than ExponentCap.
NatOf(ds, acc) ==
    IF ds = "" THEN acc
    ELSE LET v == acc * 10 + DigitValue(SubSeq(ds, 1, 1))
         IN IF v >= ExponentCap THEN ExponentCap ELSE NatOf(SubSeq(ds, 2, Len(ds)), v)

RECURSIVE DigitsLess(_, _)
\* The digits a come before the digits b, both read as decimal fractions.
DigitsLess(a, b) ==
    IF b = "" THEN FALSE
    ELSE IF a = "" THEN SkipWhile(b, 1, LAMBDA c : c = "0") <= Len(b)
    ELSE LET x == DigitValue(SubSeq(a, 1, 1))
             y == DigitValue(SubSeq(b, 1, 1))
         IN IF x # y THEN x < y
            ELSE DigitsLess(SubSeq(a, 2, Len(a)), SubSeq(b, 2, Len(b)))

(***************************************************************************)
(* The double a decimal numeral is rounded to, and the numeral             *)
(* Number::toString writes for it.                                         *)
(***************************************************************************)

\* A decimal is a record [d, frac]: the integer written by the digits d (a
\* tuple of 0..9, the most significant first) divided by 10^frac.

\* The i-th digit of the digits d, 0 outside of them.
Digit(d, i) == IF i >= 1 /\ i <= Len(d) THEN d[i] ELSE 0

\* The digit of the decimal x that counts 10^w.
DigitOf(x, w) == Digit(x.d, Len(x.d) - x.frac - w)

\* The decimal x some digit of which below 10^w is not zero.
HasBelow(x, w) == \E i \in (Len(x.d) - x.frac - w + 1)..Len(x.d) : Digit(x.d, i) # 0

\* The digits of x from 10^hi down to 10^lo.
Window(x, hi, lo) == [i \in 1..(hi - lo + 1) |-> DigitOf(x, hi + 1 - i)]

\* The digits a write a smaller number than the digits b of the same length.
LessDigits(a, b) ==
    LET diff == {i \in 1..Len(a) : a[i] # b[i]}
    IN diff # {} /\ LET i == CHOOSE k \in diff : \A j \in diff : k <= j IN a[i] < b[i]

\* The digits d without the zero they may start with and the zero they may
\* end with, as the decimal of frac digits after the point.
Trimmed(d, frac) ==
    LET n == Len(d)
        a == IF n > 1 /\ d[1] = 0 THEN 2 ELSE 1
        b == IF n > a /\ d[n] = 0 THEN n - 1 ELSE n
    IN [d |-> SubSeq(d, a, b), frac |-> frac - (n - b)]

\* Twice the decimal x: a digit is doubled and takes the carry of the digit
\* after it, which is 1 when that digit is 5 or more.
Double(x) ==
    Trimmed([i \in 1..(Len(x.d) + 1) |->
                ((2 * Digit(x.d, i - 1)) % 10) + (IF Digit(x.d, i) >= 5 THEN 1 ELSE 0)],
            x.frac)

\* Half the decimal x: a digit is halved and takes 5 when the digit before it
\* is odd.
Halve(x) ==
    Trimmed([i \in 1..(Len(x.d) + 1) |->
                (Digit(x.d, i) \div 2) + (IF Digit(x.d, i - 1) % 2 = 1 THEN 5 ELSE 0)],
            x.frac + 1)

RECURSIVE Doubled(_, _)
\* x * 2^k
Doubled(x, k) ==
    IF k = 0 THEN x
    ELSE IF k = 1 THEN CHOOSE y \in {Double(x)} : TRUE
    ELSE CHOOSE y \in {Doubled(h, k - (k \div 2)) : h \in {Doubled(x, k \div 2)}} : TRUE

RECURSIVE Halved(_, _)
\* x / 2^k
Halved(x, k) ==
    IF k = 0 THEN x
    ELSE IF k = 1 THEN CHOOSE y \in {Halve(x)} : TRUE
    ELSE CHOOSE y \in {Halved(h, k - (k \div 2)) : h \in {Halved(x, k \div 2)}} : TRUE

\* x * 2^k, k of either sign
Scaled(x, k) == IF k >= 0 THEN Doubled(x, k) ELSE Halved(x, 0 - k)

\* The digits of t + 1.
Inc(t) ==
    LET low == {i \in 1..Len(t) : t[i] # 9}
        j == CHOOSE i \in low : \A k \in low : k <= i
    IN IF low = {} THEN <<1>> \o [i \in 1..Len(t) |-> 0]
       ELSE [i \in 1..Len(t) |-> IF i < j THEN t[i] ELSE IF i = j THEN t[i] + 1 ELSE 0]

\* The digits of t - 1, t not zero.
Dec(t) ==
    LET low == {i \in 1..Len(t) : t[i] # 0}
        j == CHOOSE i \in low : \A k \in low : k <= i
    IN [i \in 1..Len(t) |-> IF i < j THEN t[i] ELSE IF i = j THEN t[i] - 1 ELSE 9]

\* The digits of 2t + 1.
TwicePlusOne(t) ==
    [i \in 1..(Len(t) + 1) |->
        ((2 * Digit(t, i - 1)) % 10)
        + (IF i > Len(t) THEN 1 ELSE IF Digit(t, i) >= 5 THEN 1 ELSE 0)]

\* 2^52 and 2^53: the significand m of a double m * 2^q is below 2^53, and
\* not below 2^52 unless q is the least exponent.
TwoTo52 == <<4, 5, 0, 3, 5, 9, 9, 6, 2, 7, 3, 7, 0, 4, 9, 6>>
TwoTo53 == <<9, 0, 0, 7, 1, 9, 9, 2, 5, 4, 7, 4, 0, 9, 9, 2>>

\* The doubles: the least and the greatest exponent q of a double m * 2^q,
\* the largest number of digits the shortest numeral of a double has, and the
\* largest number of digits with which every numeral (of a size 0.digits *
\* 10^n, n from exactFrom to exactTo) is the shortest numeral of its double.
DoubleFormat ==
    [minExponent |-> -1074, maxExponent |-> 971, shortest |-> 17,
     exact |-> 15, exactFrom |-> -306, exactTo |-> 308]

\* The number of digits of the decimal x before the point.
IntLen(x) == Len(x.d) - x.frac

\* The decimal x is 2^53 or more.
Beyond53(x) ==
    \/ IntLen(x) > 16
    \/ IntLen(x) = 16 /\ ~LessDigits(Window(x, 15, 0), TwoTo53)

RECURSIVE Below53(_, _)
\* x halved until it is below 2^53, with the exponent q raised as often.
Below53(x, q) ==
    IF ~Beyond53(x) THEN [x |-> x, q |-> q]
    ELSE CHOOSE r \in {Below53(h, q + 1) : h \in {Halve(x)}} : TRUE

\* The integer nearest to the decimal x (below 2^53), the even one of two
\* that are as near, as digits.
Nearest(x) ==
    LET int == IF IntLen(x) <= 0 THEN <<0>> ELSE Window(x, IntLen(x) - 1, 0)
        next == DigitOf(x, -1)
        up == \/ next > 5
              \/ next = 5 /\ (HasBelow(x, -1) \/ int[Len(int)] % 2 = 1)
    IN IF up THEN Inc(int) ELSE int

\* An exponent q such that x / 2^q is 2^52 or more, from the number n of
\* digits x has before the point (n <= 0: zeros after it): 10^(n-1) <= x, and
\* 3.321928 < log2(10) < 3.321929.
ExponentBelow(n) ==
    (IF n >= 1 THEN ((n - 1) * 3321928) \div 1000000
     ELSE 0 - ((((1 - n) * 3321929) + 999999) \div 1000000)) - 52

\* The double m * 2^q nearest to the decimal at.x * 2^(at.q), at.x below
\* 2^53: m as digits, zero when the decimal rounds to zero.
Rounded(at) ==
    LET m == Nearest(at.x)
    IN IF m = TwoTo53 THEN [m |-> TwoTo52, q |-> at.q + 1] ELSE [m |-> m, q |-> at.q]

\* The double nearest to the decimal v (not zero).
NearestDouble(v) ==
    LET low == ExponentBelow(IntLen(v))
        q == IF low < DoubleFormat.minExponent THEN DoubleFormat.minExponent ELSE low
    IN CHOOSE double \in
           { Rounded(at) : at \in {Below53(x, q) : x \in {Scaled(v, 0 - q)}} } : TRUE

\* The digits of 0..9 as a string, and the digits a string writes.
DigitChars(t) == Concat([i \in 1..Len(t) |-> NumStr(t[i])])

DigitsOf(str) == [i \in 1..Len(str) |-> DigitValue(SubSeq(str, i, i))]

\* The shortest numeral of the double of value value, between the decimals
\* low and high (the middles between the double and its neighbours; with
\* them when even): of the numerals of p digits the one below the value
\* (down) and the one above it (up), for the least p for which one of them
\* lies between the bounds, the nearer one of the two when both do.
Candidates(value, low, high, even, p) ==
    LET top == IntLen(value) - 1
        last == top - p + 1
        down == Window(value, top + 1, last)
        up == Inc(down)
        exact == ~HasBelow(value, last)
        lowTop == Window(low, top + 1, last)
        highTop == Window(high, top + 1, last)
        downFits == \/ exact
                    \/ LessDigits(lowTop, down)
                    \/ even /\ lowTop = down /\ ~HasBelow(low, last)
        upFits == /\ ~exact
                  /\ \/ LessDigits(up, highTop)
                     \/ up = highTop /\ (even \/ HasBelow(high, last))
        next == DigitOf(value, last - 1)
        upNearer == \/ next > 5
                    \/ next = 5 /\ (HasBelow(value, last - 1) \/ down[p + 1] % 2 = 1)
    IN [fits |-> downFits \/ upFits,
        digits |-> IF upFits /\ (~downFits \/ upNearer) THEN up ELSE down,
        last |-> last]

\* The numeral found, as the significant digits and the power of ten n such
\* that the number is 0.digits * 10^n.
Numeral(found) ==
    LET t == found.digits
        nonzero == {i \in 1..Len(t) : t[i] # 0}
        a == CHOOSE i \in nonzero : \A k \in nonzero : i <= k
        b == CHOOSE i \in nonzero : \A k \in nonzero : k <= i
    IN [digits |-> DigitChars(SubSeq(t, a, b)), exp |-> found.last + Len(t) - a + 1]

\* The shortest numeral between the bounds that is nearest to the value.
Shortest(value, low, high, even) ==
    LET fit == {p \in 1..DoubleFormat.shortest : Candidates(value, low, high, even, p).fits}
        p == CHOOSE k \in fit : \A j \in fit : k <= j
    IN CHOOSE numeral \in
           {Numeral(found) : found \in {Candidates(value, low, high, even, p)}} : TRUE

\* The numeral of the double m * 2^q (m not zero): the bounds are the
\* middles (2m - 1) * 2^(q-1) and (2m + 1) * 2^(q-1), the lower one
\* (4m - 1) * 2^(q-2) where the double below is half as far (m = 2^52).
NumeralOfDouble(m, q) ==
    LET even == m[Len(m)] % 2 = 0
        edge == m = TwoTo52 /\ q > DoubleFormat.minExponent
    IN CHOOSE numeral \in
           { Shortest(value, low, high, even) :
               value \in {Scaled([d |-> m, frac |-> 0], q)},
               low \in {IF edge
                        THEN Scaled([d |-> TwicePlusOne(TwicePlusOne(Dec(m))), frac |-> 0],
                                    q - 2)
                        ELSE Scaled([d |-> TwicePlusOne(Dec(m)), frac |-> 0], q - 1)},
               high \in {Scaled([d |-> TwicePlusOne(m), frac |-> 0], q - 1)} } : TRUE

\* The powers of ten n from which on every size 0.digits * 10^n is Infinity,
\* and up to which every one is zero.
Beyond == [infinityFrom |-> 311, zeroUpTo |-> -330]

\* The number written with the integer digits int, the fraction digits frac
\* and the exponent e: the double nearest to it, as the shortest numeral of
\* that double; Infinity beyond the largest double.
JsonNumber(neg, int, frac, e) ==
    LET all == int \o frac
        first == SkipWhile(all, 1, LAMBDA c : c = "0")
        nonzero == {k \in 1..Len(all) : SubSeq(all, k, k) # "0"}
        last == CHOOSE k \in nonzero : \A j \in nonzero : j <= k
        n == Len(int) + e - (first - 1)
        digits == SubSeq(all, first, last)
        OfDouble(double) ==
            IF double.m = <<0>> THEN JsonFinite(neg, "", 0)
            ELSE IF double.q > DoubleFormat.maxExponent THEN JsonInfinity(neg)
            ELSE LET numeral == NumeralOfDouble(double.m, double.q)
                 IN JsonFinite(neg, numeral.digits, numeral.exp)
    IN IF nonzero = {} \/ n <= Beyond.zeroUpTo THEN JsonFinite(neg, "", 0)
       ELSE IF n >= Beyond.infinityFrom THEN JsonInfinity(neg)
       ELSE IF Len(digits) <= DoubleFormat.exact /\ n >= DoubleFormat.exactFrom
            /\ n <= DoubleFormat.exactTo
       THEN JsonFinite(neg, digits, n)
       ELSE CHOOSE number \in
                { OfDouble(double) :
                    double \in {NearestDouble([d |-> DigitsOf(digits),
                                               frac |-> Len(digits) - n])} } : TRUE

\* A number at position i: -? (0 | [1-9][0-9]*) (. [0-9]+)? ([eE] [+-]? [0-9]+)?
ParseNumber(s, i) ==
    LET neg == CharAt(s, i) = "-"
        a == IF neg THEN i + 1 ELSE i
        b == IF CharAt(s, a) = "0" THEN a + 1 ELSE DigitsEnd(s, a)
        hasFrac == CharAt(s, b) = "."
        c == IF hasFrac THEN DigitsEnd(s, b + 1) ELSE b
        hasExp == CharAt(s, c) \in {"e", "E"}
        signed == hasExp /\ CharAt(s, c + 1) \in {"+", "-"}
        d == IF signed THEN c + 2 ELSE IF hasExp THEN c + 1 ELSE c
        e == IF hasExp THEN DigitsEnd(s, d) ELSE c
        size == NatOf(SubSeq(s, d, e - 1), 0)
    IN IF b = a \/ (hasFrac /\ c = b + 1) \/ (hasExp /\ e = d) THEN Failed
       ELSE [value |-> JsonNumber(neg, SubSeq(s, a, b - 1),
                                  IF hasFrac THEN SubSeq(s, b + 1, c - 1) ELSE "",
                                  IF ~hasExp THEN 0
                                  ELSE IF CharAt(s, c + 1) = "-" THEN 0 - size
                                  ELSE size),
             next |-> e]

\* The hexadecimal digits, and the value of one.
HexDigits == "0123456789abcdefABCDEF"

IsHex(c) == Len(c) = 1 /\ Includes(HexDigits, c)

HexValue(c) == LET k == IndexOf(HexDigits, c, 1) IN IF k <= 16 THEN k - 1 ELSE k - 7

\* The characters U+0020 to U+007E and U+00A0 to U+00FF, in order.
Ascii ==
    " !\"#$%&'()*+,-./0123456789:;<=>?@ABCDEFGHIJKLMNOPQRSTUVWXYZ[\\]^_"
    \o Backtick \o "abcdefghijklmnopqrstuvwxyz{|}~"

Latin1 ==
    " ¡¢£¤¥¦§¨©ª«¬­®¯°±²³´µ¶·¸¹º»¼½¾¿ÀÁÂÃÄÅÆÇÈÉÊËÌÍÎÏ"
    \o "ÐÑÒÓÔÕÖ×ØÙÚÛÜÝÞßàáâãäåæçèéêëìíîïðñòóôõö÷øùúûüýþÿ"

\* The code unit written by the four hexadecimal digits at position i.
CodeAt(s, i) ==
    ((HexValue(CharAt(s, i)) * 16 + HexValue(CharAt(s, i + 1))) * 16
     + HexValue(CharAt(s, i + 2))) * 16 + HexValue(CharAt(s, i + 3))

\* The four hexadecimal digits of a code unit, in lower case.
Hex4(n) ==
    LET Hex(d) == SubSeq(HexDigits, d + 1, d + 1)
    IN Hex(n \div 4096) \o Hex((n \div 256) % 16) \o Hex((n \div 16) % 16) \o Hex(n % 16)

\* The character of a code unit, as the model writes it.
CharOfCode(n) ==
    CASE n = 8 -> Backspace
      [] n = 9 -> "\t"
      [] n = 10 -> "\n"
      [] n = 11 -> VerticalTab
      [] n = 12 -> FormFeed
      [] n = 13 -> "\r"
      [] n >= 32 /\ n <= 126 -> SubSeq(Ascii, n - 31, n - 31)
      [] n >= 160 /\ n <= 255 -> SubSeq(Latin1, n - 159, n - 159)
      [] n = 5760 -> OghamSpace
      [] n >= 8192 /\ n <= 8202 -> SubSeq(WideSpaceChars, n - 8191, n - 8191)
      [] n = 8232 -> LineSeparator
      [] n = 8233 -> ParagraphSeparator
      [] n = 8239 -> SubSeq(WideSpaceChars, 12, 12)
      [] n = 8287 -> SubSeq(WideSpaceChars, 13, 13)
      [] n = 12288 -> SubSeq(WideSpaceChars, 14, 14)
      [] n = 65279 -> ByteOrderMark
      [] OTHER -> Spelled(n)

\* The character an escape \c stands for, "" when there is no such escape.
Unescaped(c) ==
    CASE c = "\"" -> "\""
      [] c = "\\" -> "\\"
      [] c = "/" -> "/"
      [] c = "b" -> Backspace
      [] c = "f" -> FormFeed
      [] c = "n" -> "\n"
      [] c = "r" -> "\r"
      [] c = "t" -> "\t"
      [] OTHER -> ""

\* The code unit at position i is a control character (below U+0020), which
\* a JSON string holds only escaped.
IsControl(s, i) ==
    \/ CharAt(s, i) \in {Backspace, "\t", "\n", VerticalTab, FormFeed, "\r"}
    \/ IsSpelled(s, i) /\ SpelledCode(s, i) < 32

RECURSIVE ParseChars(_, _, _)
\* The rest of a string whose characters up to position i gave str, up to and
\* with its closing quote.
ParseChars(s, i, str) ==
    LET c == CharAt(s, i)
        e == CharAt(s, i + 1)
    IN IF c = "" \/ IsControl(s, i) THEN Failed
       ELSE IF c = "\"" THEN [value |-> JsonString(str), next |-> i + 1]
       ELSE IF IsSpelled(s, i) THEN ParseChars(s, i + 5, str \o SubSeq(s, i, i + 4))
       ELSE IF c # "\\" THEN ParseChars(s, i + 1, str \o c)
       ELSE IF e = "u"
       THEN IF \A k \in 2..5 : IsHex(CharAt(s, i + k))
            THEN ParseChars(s, i + 6, str \o CharOfCode(CodeAt(s, i + 2)))
            ELSE Failed
       ELSE IF Unescaped(e) # "" THEN ParseChars(s, i + 2, str \o Unescaped(e))
       ELSE Failed

\* The object with the member key: value set; a key that is there already
\* keeps its place and takes the new value.
WithMember(keys, values, key, value) ==
    LET at == {k \in 1..Len(keys) : keys[k] = key}
    IN IF at = {} THEN [keys |-> Append(keys, key), values |-> Append(values, value)]
       ELSE [keys |-> keys, values |-> [values EXCEPT ![CHOOSE k \in at : TRUE] = value]]

RECURSIVE ParseValue(_, _)
RECURSIVE ParseItems(_, _, _)
RECURSIVE ParseMembers(_, _, _, _)

\* The value that starts at position i or after white space from there on.
ParseValue(s, from) ==
    LET i == SkipJsonSpaces(s, from)
        c == CharAt(s, i)
        j == SkipJsonSpaces(s, i + 1)
    IN CASE c = "{" -> IF CharAt(s, j) = "}"
                       THEN [value |-> JsonObject(<<>>, <<>>), next |-> j + 1]
                       ELSE ParseMembers(s, j, <<>>, <<>>)
         [] c = "[" -> IF CharAt(s, j) = "]"
                       THEN [value |-> JsonArray(<<>>), next |-> j + 1]
                       ELSE ParseItems(s, j, <<>>)
         [] c = "\"" -> ParseChars(s, i + 1, "")
         [] c = "-" \/ IsDigit(c) -> ParseNumber(s, i)
         [] c = "t" /\ StartsWithAt(s, "true", i) ->
                [value |-> JsonBoolean(TRUE), next |-> i + 4]
         [] c = "f" /\ StartsWithAt(s, "false", i) ->
                [value |-> JsonBoolean(FALSE), next |-> i + 5]
         [] c = "n" /\ StartsWithAt(s, "null", i) -> [value |-> JsonNull, next |-> i + 4]
         [] OTHER -> Failed

\* What follows an element of an array that was read as item.
ItemsAfter(s, item, items) ==
    LET j == SkipJsonSpaces(s, item.next)
    IN IF item.value.type = "SyntaxError" THEN Failed
       ELSE IF CharAt(s, j) = ","
       THEN ParseItems(s, j + 1, Append(items, item.value))
       ELSE IF CharAt(s, j) = "]"
       THEN [value |-> JsonArray(Append(items, item.value)), next |-> j + 1]
       ELSE Failed

\* The elements of an array from position i on, items being those read so
\* far, up to and with the closing bracket. (The element is read once.)
ParseItems(s, i, items) ==
    CHOOSE result \in {ItemsAfter(s, item, items) : item \in {ParseValue(s, i)}} : TRUE

\* What follows a member of an object once it is set in the object.
MembersAfter(s, member, with) ==
    LET j == SkipJsonSpaces(s, member.next)
    IN IF CharAt(s, j) = "," THEN ParseMembers(s, j + 1, with.keys, with.values)
       ELSE IF CharAt(s, j) = "}"
       THEN [value |-> JsonObject(with.keys, with.values), next |-> j + 1]
       ELSE Failed

\* What follows the key of a member: a colon and its value.
MemberAfterKey(s, key, keys, values) ==
    LET colon == SkipJsonSpaces(s, key.next)
    IN IF key.value.type = "SyntaxError" \/ CharAt(s, colon) # ":" THEN Failed
       ELSE CHOOSE result \in
                { IF member.value.type = "SyntaxError" THEN Failed
                  ELSE CHOOSE after \in
                           { MembersAfter(s, member, with) :
                               with \in {WithMember(keys, values, key.value.str,
                                                    member.value)} } : TRUE :
                    member \in {ParseValue(s, colon + 1)} } : TRUE

\* The string at position k, the key of a member.
KeyAt(s, k) == IF CharAt(s, k) = "\"" THEN ParseChars(s, k + 1, "") ELSE Failed

\* The members of an object from position i on, keys and values being those
\* read so far, up to and with the closing brace. (The key and the value are
\* read once each.)
ParseMembers(s, i, keys, values) ==
    CHOOSE result \in
        { MemberAfterKey(s, key, keys, values) :
            key \in {KeyAt(s, SkipJsonSpaces(s, i))} } : TRUE

\* The value a text writes when nothing but white space follows it.
WholeText(responseText, parsed) ==
    IF parsed.value.type = "SyntaxError" THEN SyntaxError
    ELSE IF SkipJsonSpaces(responseText, parsed.next) <= Len(responseText)
    THEN SyntaxError
    ELSE parsed.value

\* JSON.parse(responseText): the value the text writes, or the SyntaxError
\* thrown for a text that is no JSON.
JsonParse(responseText) ==
    CHOOSE data \in
        {WholeText(responseText, parsed) : parsed \in {ParseValue(responseText, 1)}} : TRUE

\* A key that is an array index: a canonical integer below 2^32 - 1.
IsIndexKey(key) ==
    /\ key # ""
    /\ DigitsEnd(key, 1) > Len(key)
    /\ key = "0" \/ SubSeq(key, 1, 1) # "0"
    /\ Len(key) < 10 \/ (Len(key) = 10 /\ ~DigitsLess("4294967294", key))

\* The index key a comes before the index key b.
IndexLess(a, b) == Len(a) < Len(b) \/ (Len(a) = Len(b) /\ DigitsLess(a, b))

\* The positions of the keys of an object in the order of its own properties:
\* the index keys in ascending order, then the others as they were created.
KeyOrder(keys) ==
    LET indices == {k \in 1..Len(keys) : IsIndexKey(keys[k])}
        others == (1..Len(keys)) \ indices
        Before(a, b) ==
            IF a \in indices /\ b \in indices THEN IndexLess(keys[a], keys[b])
            ELSE IF a \in others /\ b \in others THEN a < b
            ELSE a \in indices
    IN [p \in 1..Len(keys) |->
          CHOOSE k \in 1..Len(keys) :
              Cardinality({j \in 1..Len(keys) : Before(j, k)}) = p - 1]

\* The text of a number (Number::toString), null for Infinity.
NumberText(v) ==
    LET k == Len(v.digits)
        n == v.exp
        Zeros(m) == Concat([z \in 1..m |-> "0"])
        e == n - 1
        size ==
            IF k <= n /\ n <= 21 THEN v.digits \o Zeros(n - k)
            ELSE IF 0 < n /\ n <= 21
            THEN SubSeq(v.digits, 1, n) \o "." \o SubSeq(v.digits, n + 1, k)
            ELSE IF -6 < n /\ n <= 0 THEN "0." \o Zeros(0 - n) \o v.digits
            ELSE SubSeq(v.digits, 1, 1)
                 \o (IF k = 1 THEN "" ELSE "." \o SubSeq(v.digits, 2, k))
                 \o "e" \o (IF e > 0 THEN "+" \o NumStr(e) ELSE "-" \o NumStr(0 - e))
    IN IF ~v.finite THEN "null"
       ELSE IF k = 0 THEN "0"
       ELSE (IF v.neg THEN "-" ELSE "") \o size

\* A character inside the quotes of a string of JSON.stringify.
Escaped(c) ==
    CASE c = "\"" -> "\\\""
      [] c = "\\" -> "\\\\"
      [] c = Backspace -> "\\b"
      [] c = FormFeed -> "\\f"
      [] c = "\n" -> "\\n"
      [] c = "\r" -> "\\r"
      [] c = "\t" -> "\\t"
      [] c = VerticalTab -> "\\u000b"
      [] OTHER -> c

\* The code unit at position k, if spelled, is the first half of a pair of
\* surrogates (U+D800 to U+DBFF), the second half of one (U+DC00 to U+DFFF).
IsHighAt(str, k) ==
    IsSpelled(str, k) /\ SpelledCode(str, k) >= 55296 /\ SpelledCode(str, k) <= 56319

IsLowAt(str, k) ==
    IsSpelled(str, k) /\ SpelledCode(str, k) >= 56320 /\ SpelledCode(str, k) <= 57343

\* A code unit spelled at position k inside the quotes of a string of
\* JSON.stringify: a control character and a surrogate without its other
\* half are escaped.
EscapedSpelled(str, k) ==
    LET code == SpelledCode(str, k)
        lone == \/ IsHighAt(str, k) /\ ~IsLowAt(str, k + 5)
                \/ IsLowAt(str, k) /\ ~(k > 5 /\ IsHighAt(str, k - 5))
    IN IF code < 32 \/ lone THEN "\\u" \o Hex4(code) ELSE SubSeq(str, k, k + 4)

\* A string as JSON.stringify writes it.
Quoted(str) ==
    LET InSpelled(k) == \E j \in 1..4 : k > j /\ IsSpelled(str, k - j)
    IN "\"" \o Concat([k \in 1..Len(str) |->
                         IF InSpelled(k) THEN ""
                         ELSE IF IsSpelled(str, k) THEN EscapedSpelled(str, k)
                         ELSE Escaped(SubSeq(str, k, k))])
       \o "\""

RECURSIVE StringifyAt(_, _, _)
\* The text of a value under the indentation gap, inside the indentation
\* indent.
StringifyAt(v, gap, indent) ==
    LET inner == indent \o gap
        open == IF gap = "" THEN "" ELSE "\n" \o inner
        between == IF gap = "" THEN "," ELSE ",\n" \o inner
        close == IF gap = "" THEN "" ELSE "\n" \o indent
        colon == IF gap = "" THEN ":" ELSE ": "
    IN CASE v.type = "null" -> "null"
         [] v.type = "boolean" -> IF v.bool THEN "true" ELSE "false"
         [] v.type = "number" -> NumberText(v)
         [] v.type = "string" -> Quoted(v.str)
         [] v.type = "array" ->
                IF v.items = <<>> THEN "[]"
                ELSE "[" \o open
                     \o Join([k \in 1..Len(v.items) |->
                                 StringifyAt(v.items[k], gap, inner)], between)
                     \o close \o "]"
         [] v.type = "object" ->
                IF v.keys = <<>> THEN "{}"
                ELSE LET order == KeyOrder(v.keys)
                     IN "{" \o open
                        \o Join([k \in 1..Len(order) |->
                                    Quoted(v.keys[order[k]]) \o colon
                                    \o StringifyAt(v.values[order[k]], gap, inner)],
                                between)
                        \o close \o "}"

\* JSON.stringify(data) with gap "", JSON.stringify(data, null, 2) with a gap
\* of two spaces.
JsonStringify(data, gap) == StringifyAt(data, gap, "")

\* data.name: the value of the property, undefined when data is no object or
\* has no such key (none of the names read is a property of a prototype).
Property(data, name) ==
    IF data.type # "object" THEN JsonUndefined
    ELSE LET at == {k \in 1..Len(data.keys) : data.keys[k] = name}
         IN IF at = {} THEN JsonUndefined ELSE data.values[CHOOSE k \in at : TRUE]

\* The value counts as true in a condition.
Truthy(v) ==
    CASE v.type \in {"undefined", "null"} -> FALSE
      [] v.type = "boolean" -> v.bool
      [] v.type = "number" -> ~v.finite \/ v.digits # ""
      [] v.type = "string" -> v.str # ""
      [] OTHER -> TRUE

\* data.a || data.b || ...: the first of the properties that counts as true,
\* the last one when none does.
FirstTruthy(data, names) ==
    LET found == {k \in 1..Len(names) : Truthy(Property(data, names[k]))}
    IN IF found = {} THEN Property(data, names[Len(names)])
       ELSE Property(data, names[CHOOSE k \in found : \A j \in found : k <= j])

\* typeof message === 'string' ? message : JSON.stringify(message)
MessageText(message) ==
    IF message.type = "string" THEN message.str ELSE JsonStringify(message, "")

\* The fields tried for the message, in order.
MessageFields ==
    <<"response", "message", "output", "text", "reply", "answer", "ai_response",
      "result", "data">>

\* The fields tried inside data.data, in order.
NestedFields == <<"response", "message", "output", "text">>

\* data.response || data.message || ... || data.data
AiMessage(data) == FirstTruthy(data, MessageFields)

\* data.data.response || data.data.message || data.data.output || data.data.text
NestedMessage(data) == FirstTruthy(Property(data, "data"), NestedFields)

\* The text of the message found, if one was found.
FoundText(message) == IF Truthy(message) THEN <<MessageText(message)>> ELSE <<>>

\* What the try block of lines 152-185 returns for the value data: the
\* message field, the string the text writes, the nested message, or the
\* whole value with an indentation of 2.
ReplyOfData(data) ==
    LET found == FoundText(AiMessage(data))
        nested == Property(data, "data")
    IN IF found # <<>> THEN found[1]
       ELSE IF data.type = "string" THEN data.str
       ELSE IF /\ Truthy(nested)
               /\ nested.type \in {"object", "array"}
               /\ FoundText(NestedMessage(data)) # <<>>
       THEN FoundText(NestedMessage(data))[1]
       ELSE JsonStringify(data, "  ")

\* What sendMessageToAI returns for an ok response with this text: the text
\* itself when JSON.parse throws, or when Object.keys(data) does (data null),
\* else what the try block returns for the value. (The text is parsed once.)
ReplyOfOk(responseText) ==
    CHOOSE reply \in
        { IF data.type \in {"SyntaxError", "null"} THEN responseText
          ELSE ReplyOfData(data) : data \in {JsonParse(responseText)} } : TRUE

\* What it returns for a response that is not ok: the token-limit reply, or
\* the fallback of the catch block that takes the Error thrown.
ReplyOfError(errorText) ==
    IF Includes(errorText, "Request too large") \/ Includes(errorText, "token")
    THEN TokenLimitReply
    ELSE FallbackReply

\* The child appended for a user message: the text as it is.
UserMessage(message) == [sender |-> "user", content |-> message]

\* The child appended for an AI message: the html parseMarkdown returned.
AiChatMessage(formattedHTML) ==
    [sender |-> "ai", content |-> "<div class=\"message-text\">" \o formattedHTML \o "</div>"]

\* A control with disabled = true and, without that assignment, as it was.
LeftEnabled(control) == control

Disabled(control) == [control EXCEPT !.disabled = TRUE]

\* The most calls of handleSendMessage that go past the empty-message test.
MaxCalls == 2

\* What the user may type into the input.
TypedValues == {" ", " hi "}

\* The user types into the input, which takes input only while enabled.
Type(v) ==
    /\ pc = "idle"
    /\ ~chatInput.disabled
    /\ chatInput' = [chatInput EXCEPT !.value = v]
    /\ UNCHANGED <<text, pc, html, tables, fault, sendButton, typingIndicator,
                   chatWindow, calls, sessionStorage>>

\* handleSendMessage() to its await: the message test, the user message, the
\* input cleared, the controls disabled, the indicator shown, and
\* sendMessageToAI(message) to its own await of fetch. When
\* getOrCreateSessionId throws, which is outside the try block of
\* sendMessageToAI, its promise is rejected and so is handleSendMessage's.
HandleSendMessage ==
    LET message == Trim(chatInput.value)
        session == GetOrCreateSessionId(sessionStorage)
    IN IF message = ""
       THEN UNCHANGED vars
       ELSE /\ chatWindow' = Append(chatWindow, UserMessage(message))
            /\ chatInput' = Disabled([chatInput EXCEPT !.value = ""])
            /\ sendButton' = Disabled(sendButton)
            /\ typingIndicator' = "flex"
            /\ sessionStorage' = session.storage
            /\ calls' = Append(calls,
                  [message |-> message,
                   payload |-> Payload(MessageToSend(message), session.sessionId),
                   at |-> IF session.threw THEN "rejected" ELSE "fetch",
                   response |-> NoResponse,
                   reply |-> ""])
            /\ UNCHANGED <<text, pc, html, tables, fault>>

\* A click on the send button, which a disabled button does not take.
ClickSend ==
    /\ pc = "idle"
    /\ Len(calls) < MaxCalls
    /\ ~sendButton.disabled
    /\ HandleSendMessage

\* An Enter keypress in the input, which a disabled input does not take.
PressEnter ==
    /\ pc = "idle"
    /\ Len(calls) < MaxCalls
    /\ ~chatInput.disabled
    /\ HandleSendMessage

\* The fetch of call i settles: with a response, whose text is awaited next,
\* or with a rejection, which the catch block turns into the fallback reply.
FetchSettles(i, rejected, response) ==
    /\ pc = "idle"
    /\ calls[i].at = "fetch"
    /\ calls' = [calls EXCEPT ![i] =
          IF rejected THEN [@ EXCEPT !.at = "resolved", !.reply = FallbackReply]
          ELSE [@ EXCEPT !.at = "body", !.response = response]]
    /\ UNCHANGED <<text, pc, html, tables, fault, chatInput, sendButton,
                   typingIndicator, chatWindow, sessionStorage>>

\* response.text() of call i settles: with the text, from which the reply is
\* made, or with a rejection, which the catch block takes. sendMessageToAI
\* returns.
BodySettles(i, rejected) ==
    /\ pc = "idle"
    /\ calls[i].at = "body"
    /\ calls' = [calls EXCEPT ![i] =
          [@ EXCEPT !.at = "resolved",
                    !.reply = IF rejected THEN FallbackReply
                              ELSE IF calls[i].response.ok
                              THEN ReplyOfOk(calls[i].response.body)
                              ELSE ReplyOfError(calls[i].response.body)]]
    /\ UNCHANGED <<text, pc, html, tables, fault, chatInput, sendButton,
                   typingIndicator, chatWindow, sessionStorage>>

\* handleSendMessage of call i goes on after its await: the indicator is
\* hidden and addChatMessage(aiResponse, 'ai') calls parseMarkdown.
HideAndRender(i) ==
    /\ pc = "idle"
    /\ calls[i].at = "resolved"
    /\ typingIndicator' = "none"
    /\ text' = calls[i].reply
    /\ pc' = "input"
    /\ html' = ""
    /\ tables' = <<>>
    /\ fault' = "none"
    /\ calls' = [calls EXCEPT ![i].at = "rendering"]
    /\ UNCHANGED <<chatInput, sendButton, chatWindow, sessionStorage>>

\* parseMarkdown has returned: the AI message is appended and the controls
\* are enabled again; handleSendMessage of call i returns.
AppendAndEnable(i) ==
    /\ pc = "done"
    /\ calls[i].at = "rendering"
    /\ chatWindow' = Append(chatWindow, AiChatMessage(html))
    /\ chatInput' = [chatInput EXCEPT !.disabled = FALSE]
    /\ sendButton' = [sendButton EXCEPT !.disabled = FALSE]
    /\ pc' = "idle"
    /\ calls' = [calls EXCEPT ![i].at = "returned"]
    /\ UNCHANGED <<text, html, tables, fault, typingIndicator, sessionStorage>>

\* What the user does.
UserNext ==
    \/ \E v \in TypedValues : Type(v)
    \/ ClickSend
    \/ PressEnter

\* What the network and the event loop do.
ProgressNext ==
    \/ \E i \in 1..Len(calls), rejected \in BOOLEAN, response \in Responses :
          FetchSettles(i, rejected, response)
    \/ \E i \in 1..Len(calls), rejected \in BOOLEAN : BodySettles(i, rejected)
    \/ \E i \in 1..Len(calls) : HideAndRender(i)
    \/ \E failed \in BOOLEAN : ExtractTables(failed)
    \/ Pipeline
    \/ \E i \in 1..Len(calls) : AppendAndEnable(i)

\* The page loaded, parseMarkdown not running; sessionStorage usable or not.
InitChat ==
    /\ text = ""
    /\ pc = "idle"
    /\ html = ""
    /\ tables = <<>>
    /\ fault = "none"
    /\ \E usable \in BOOLEAN : PageLoaded(usable)

NextChat == UserNext \/ ProgressNext

\* Every request settles and code that can run does run; the user need not
\* do anything.
SpecChat == InitChat /\ [][NextChat]_vars /\ WF_vars(ProgressNext)

(***************************************************************************)
(* What the properties speak of.                                           *)
(***************************************************************************)

\* The number of places where p occurs in s.
Count(s, p) == Cardinality({i \in 1..Len(s) : StartsWithAt(s, p, i)})

EndsWith(s, p) == StartsWithAt(s, p, Len(s) - Len(p) + 1)

\* parseMarkdown has returned.
Returned == pc = "done"

\* parseTable has returned, nothing having gone wrong in it: html holds its
\* result.
TableParsed == pc = "protect" /\ fault = "none"

\* The tags the renderer writes, opening and closing.
OpenTags ==
    { "<p>", "<pre>", "<code>", "<strong>", "<em>", "<blockquote>", "<h1>", "<h2>",
      "<h3>", "<ul>", "<ol>", "<li >", TableOpen, "<thead>", "<tbody>", "<tr>",
      "<th>", "<td>" }

\* The closing tag of an opening tag: "</" and its name.
ClosingOf(tag) ==
    IF tag = TableOpen THEN TableClose
    ELSE IF tag = "<li >" THEN ItemClose
    ELSE "</" \o SubSeq(tag, 2, Len(tag))

CloseTags == {ClosingOf(t) : t \in OpenTags}

VoidTags == {"<br>", "<hr>"}

RendererTags == OpenTags \cup CloseTags \cup VoidTags

\* The renderer tag that starts at position i of s, "" when none does.
TagAt(s, i) ==
    IF \E t \in RendererTags : StartsWithAt(s, t, i)
    THEN CHOOSE t \in RendererTags : StartsWithAt(s, t, i)
    ELSE ""

\* Every <, > and & of s belongs to a tag of the renderer or to one of the
\* entities &amp; &lt; &gt;.
OnlyRendererMarkup(s) ==
    \A i \in 1..Len(s) :
        /\ SubSeq(s, i, i) = "<" => TagAt(s, i) # ""
        /\ SubSeq(s, i, i) = ">" =>
              \E t \in RendererTags : StartsWithAt(s, t, i - Len(t) + 1)
        /\ SubSeq(s, i, i) = "&" =>
              \E e \in {"&amp;", "&lt;", "&gt;"} : StartsWithAt(s, e, i)

RECURSIVE Nested(_, _, _)
\* From position i of s on, with the tags in stack open: every closing tag
\* closes the tag opened last, and none is left open at the end.
Nested(s, i, stack) ==
    LET at == {j \in i..Len(s) : TagAt(s, j) \in OpenTags \cup CloseTags}
        j == CHOOSE k \in at : \A m \in at : k <= m
        tag == TagAt(s, j)
    IN IF at = {} THEN stack = <<>>
       ELSE IF tag \in OpenTags THEN Nested(s, j + Len(tag), <<tag>> \o stack)
       ELSE /\ stack # <<>>
            /\ ClosingOf(Head(stack)) = tag
            /\ Nested(s, j + Len(tag), Tail(stack))

WellNested(s) == Nested(s, 1, <<>>)

\* The block-level tags of the renderer.
BlockTags ==
    {"<h1>", "<h2>", "<h3>", "<hr>", "<blockquote>", "<ul>", "<ol>", "<pre>", TableOpen}

\* A block-level tag lies between a <p> and the </p> that closes it (the
\* first one after it).
BlockInParagraph(s) ==
    \E i, j, k \in 1..Len(s) :
        /\ i < j /\ j < k
        /\ StartsWithAt(s, "<p>", i)
        /\ TagAt(s, j) \in BlockTags
        /\ StartsWithAt(s, "</p>", k)
        /\ \A m \in (i + 1)..(k - 1) : ~StartsWithAt(s, "</p>", m)

\* The lines of the input, as parseTable sees them.
InputLines == Split(text, "\n")

\* The maximal runs <<a, b>> of consecutive pipe lines.
PipeRuns(lines) ==
    { r \in (1..Len(lines)) \X (1..Len(lines)) :
        /\ r[1] <= r[2]
        /\ \A i \in r[1]..r[2] : IsPipeLine(lines[i])
        /\ r[1] = 1 \/ ~IsPipeLine(lines[r[1] - 1])
        /\ r[2] = Len(lines) \/ ~IsPipeLine(lines[r[2] + 1]) }

\* The qualification test on the lines i..b: at least three lines, the second
\* one made of pipes, hyphens, colons and white space only.
Qualifies(lines, i, b) ==
    /\ b - i + 1 >= 3
    /\ \A k \in 1..Len(Trim(lines[i + 1])) :
          \/ SubSeq(Trim(lines[i + 1]), k, k) \in {"|", "-", ":"}
          \/ IsSpace(SubSeq(Trim(lines[i + 1]), k, k))

\* The first line of the maximal run a..b from which on the rest of the run
\* passes the test, 0 when there is none.
TableStart(lines, a, b) ==
    LET from == {i \in a..b : Qualifies(lines, i, b)}
    IN IF from = {} THEN 0 ELSE CHOOSE i \in from : \A j \in from : i <= j

\* The lines <<m, b>> rendered as tables.
Rendered(lines) ==
    { <<TableStart(lines, r[1], r[2]), r[2]>> :
        r \in {q \in PipeRuns(lines) : TableStart(lines, q[1], q[2]) # 0} }

\* Line i is a line of a table other than its first.
Absorbed(lines, i) == \E r \in Rendered(lines) : r[1] < i /\ i <= r[2]

\* Where the line i of the input, or the table that starts at i, stands among
\* the lines of the result.
OutIndex(lines, i) == i - Cardinality({j \in 1..(i - 1) : Absorbed(lines, j)})

\* The lines of the result of parseTable.
OutLines == Split(html, "\n")

\* The cells of a row: its fields between pipes, trimmed, the empty ones left
\* out.
RowCells(row) == Cells(Trim(row))

\* The table of a header and its data rows a + 2 .. b: one <th> per header
\* cell, one <tr> per data row that has a cell, with one <td> per cell.
ExpectedTable(lines, a, b) ==
    LET header == RowCells(lines[a])
        rows == SelectSeq([k \in 1..(b - a - 1) |-> RowCells(lines[a + 1 + k])],
                          LAMBDA cells : cells # <<>>)
    IN TableOpen \o "<thead><tr>"
       \o Concat([k \in 1..Len(header) |-> "<th>" \o header[k] \o "</th>"])
       \o "</tr></thead><tbody>"
       \o Concat([r \in 1..Len(rows) |->
             "<tr>" \o Concat([k \in 1..Len(rows[r]) |-> "<td>" \o rows[r][k] \o "</td>"])
             \o "</tr>"])
       \o "</tbody>" \o TableClose

\* The tables parseTable renders for the input, in the order of their runs.
TableFragments ==
    LET items == TableItems(InputLines, 1)
        rendered == SelectSeq(items, LAMBDA it : it.table)
    IN [k \in 1..Len(rendered) |-> rendered[k].str]

RECURSIVE InOrder(_, _, _)
\* The strings of parts occur in s from position from on, one after the other.
InOrder(s, parts, from) ==
    \/ parts = <<>>
    \/ LET i == IndexOf(s, Head(parts), from)
       IN i # 0 /\ InOrder(s, Tail(parts), i + Len(Head(parts)))

\* parseMarkdown has returned from its try block.
Rendering == Returned /\ fault = "none"

\* The blocks of the input: its parts between blank lines.
InputBlocks == SplitFrom(ReplaceAll(text, "\n\n", "\r"), "\r", 1)

\* What a block set apart by blank lines is to become: a header line its
\* header element, a pipe table its table, plain text one paragraph with its
\* line breaks.
ExpectedBlock(b) ==
    IF StartsWithAt(b, "# ", 1) THEN "<h1>" \o SubSeq(b, 3, Len(b)) \o "</h1>"
    ELSE IF StartsWithAt(b, "## ", 1) THEN "<h2>" \o SubSeq(b, 4, Len(b)) \o "</h2>"
    ELSE IF Includes(b, "|") THEN ExpectedTable(Split(b, "\n"), 1, Len(Split(b, "\n")))
    ELSE "<p>" \o ReplaceAll(b, "\n", "<br>") \o "</p>"

\* A line of the form '- text' or '* text'.
IsUnorderedItem(line) ==
    /\ StartsWithAt(line, "- ", 1) \/ StartsWithAt(line, "* ", 1)
    /\ Len(line) > 2

\* A line of the form '<digits>. text'.
IsOrderedItem(line) ==
    \E d \in 1..Len(line) :
        /\ \A i \in 1..d : SubSeq(line, i, i) \in {"0", "1", "2", "3", "4", "5", "6", "7", "8", "9"}
        /\ StartsWithAt(line, ". ", d + 1)
        /\ Len(line) > d + 2

\* The maximal runs <<a, b>> of consecutive unordered-list lines.
UnorderedRuns(lines) ==
    { r \in (1..Len(lines)) \X (1..Len(lines)) :
        /\ r[1] <= r[2]
        /\ \A i \in r[1]..r[2] : IsUnorderedItem(lines[i])
        /\ r[1] = 1 \/ ~IsUnorderedItem(lines[r[1] - 1])
        /\ r[2] = Len(lines) \/ ~IsUnorderedItem(lines[r[2] + 1]) }

\* The maximal runs <<a, b>> of consecutive ordered-list lines.
OrderedRuns(lines) ==
    { r \in (1..Len(lines)) \X (1..Len(lines)) :
        /\ r[1] <= r[2]
        /\ \A i \in r[1]..r[2] : IsOrderedItem(lines[i])
        /\ r[1] = 1 \/ ~IsOrderedItem(lines[r[1] - 1])
        /\ r[2] = Len(lines) \/ ~IsOrderedItem(lines[r[2] + 1]) }

\* A <code> element opens inside another one.
NestedCode(s) ==
    \E i, j \in 1..Len(s) :
        /\ i < j
        /\ StartsWithAt(s, "<code>", i)
        /\ StartsWithAt(s, "<code>", j)
        /\ \A m \in i..j : ~StartsWithAt(s, "</code>", m)

\* The cells of a row as stated: its fields between pipes, trimmed, without
\* the first field when it is empty and without the last when it is empty.
FieldCells(row) ==
    LET fields == Split(Trim(row), "|")
        trimmed == [k \in 1..Len(fields) |-> Trim(fields[k])]
        a == IF trimmed[1] = "" THEN 2 ELSE 1
        b == IF trimmed[Len(trimmed)] = "" THEN Len(trimmed) - 1 ELSE Len(trimmed)
    IN IF a > b THEN <<>> ELSE SubSeq(trimmed, a, b)

\* The table of a header and its data rows a + 2 .. b with those cells.
FieldTable(lines, a, b) ==
    LET header == FieldCells(lines[a])
        rows == SelectSeq([k \in 1..(b - a - 1) |-> FieldCells(lines[a + 1 + k])],
                          LAMBDA cells : cells # <<>>)
    IN TableOpen \o "<thead><tr>"
       \o Concat([k \in 1..Len(header) |-> "<th>" \o header[k] \o "</th>"])
       \o "</tr></thead><tbody>"
       \o Concat([r \in 1..Len(rows) |->
             "<tr>" \o Concat([k \in 1..Len(rows[r]) |-> "<td>" \o rows[r][k] \o "</td>"])
             \o "</tr>"])
       \o "</tbody>" \o TableClose

\* The calls of handleSendMessage between the start of their await of
\* sendMessageToAI and the appending of the reply.
InFlight ==
    {i \in 1..Len(calls) : calls[i].at \in {"fetch", "body", "resolved", "rendering"}}

\* The calls that have appended their reply and returned.
ReturnedCalls == {i \in 1..Len(calls) : calls[i].at = "returned"}

\* The messages of a sender in the chat window.
MessagesOf(sender) == {k \in 1..Len(chatWindow) : chatWindow[k].sender = sender}

(***************************************************************************)
(* The properties.                                                         *)
(***************************************************************************)

\* C1: the string parseMarkdown returns holds no <, > or & of the input text
\* unescaped, the cells of a rendered table included. (Spec: the input lines
\* spell no tag of the renderer, so that every <, > and & outside the
\* renderer's tags and entities is one of the input.)
C1_InputEscaped == (Returned /\ fault = "none") => OnlyRendererMarkup(html)

\* C2: parseMarkdown is total on strings: whatever goes wrong inside, the call
\* returns a string and never throws to the caller.
C2_Total ==
    /\ pc \in {"input"} \cup {Stages[k] : k \in 1..Len(Stages)}
    /\ Returned => html \in STRING

\* C2 witness: the call on the empty string has returned, through the catch
\* block.
C2_Witness == Returned /\ text = "" /\ fault = "pipeline" /\ html = "<p></p>"

\* C3: when a stage of the pipeline fails, parseMarkdown returns the input
\* escaped as in step 2 (&, < and >), in one paragraph.
C3_FallbackEscaped ==
    (Returned /\ fault = "pipeline") => html = "<p>" \o EscapeHtml(text) \o "</p>"

\* C4: the tags parseMarkdown introduces form a closed, properly nested
\* sequence in the string it returns.
C4_WellNested == Returned => WellNested(html)

\* C5: in the string parseMarkdown returns no block-level element lies between
\* a <p> and its </p>.
C5_NoBlockInParagraph == Returned => ~BlockInParagraph(html)

\* C6: for an input without a pipe character, the string parseMarkdown
\* returns holds no <table> element and every <, > and & of the input escaped.
C6_NoPipeNoTable ==
    (Returned /\ fault = "none" /\ ~Includes(text, "|")) =>
        /\ ~Includes(html, "<table")
        /\ OnlyRendererMarkup(html)

\* C7 as first stated: a run that passes the test is rendered with one <tr>
\* for its header and one <tr> for each of its data rows.
C7_RowPerDataRow ==
    TableParsed =>
        \A r \in PipeRuns(InputLines) :
            Qualifies(InputLines, r[1], r[2]) =>
                Count(OutLines[OutIndex(InputLines, r[1])], "<tr>") = 1 + (r[2] - r[1] - 1)

\* C7, amended: parseTable renders a maximal run of pipe lines made of a
\* header row, a separator line and k >= 1 data rows as exactly one table
\* fragment: one <th> per non-empty header cell and one body <tr> per data row
\* that has a non-empty cell; the separator and the data rows whose cells are
\* all empty give no row.
C7_TableOfRun ==
    TableParsed =>
        \A r \in PipeRuns(InputLines) :
            Qualifies(InputLines, r[1], r[2]) =>
                OutLines[OutIndex(InputLines, r[1])] = ExpectedTable(InputLines, r[1], r[2])

\* C7 witness: a run of a header, a separator, a data row without cells and a
\* data row with cells has been rendered.
C7_Witness ==
    /\ TableParsed
    /\ text = "a|b\n|-|\n | \n |c||d"
    /\ html = TableOpen \o "<thead><tr><th>a</th><th>b</th></tr></thead>"
                \o "<tbody><tr><td>c</td><td>d</td></tr></tbody></table>"

\* C8: a maximal run of exactly two pipe lines never produces a <table> in the
\* string parseMarkdown returns, and the pipes of both lines are in it.
C8_TwoLineRun ==
    (Returned /\ fault = "none"
        /\ PipeRuns(InputLines) # {}
        /\ \A r \in PipeRuns(InputLines) : r[2] = r[1] + 1) =>
        /\ ~Includes(html, "<table")
        /\ Count(html, "|") = Count(text, "|")

\* C9: the qualification test is applied to a maximal run of pipe lines as a
\* whole, and every line of a run that fails it is passed through as text.
C9_WholeRun ==
    TableParsed =>
        \A r \in PipeRuns(InputLines) :
            ~Qualifies(InputLines, r[1], r[2]) =>
                \A i \in r[1]..r[2] : \E k \in 1..Len(OutLines) : OutLines[k] = InputLines[i]

\* What parseTable does where C9 asks for the test on the whole run (lines
\* 348-351, 391-395): the test is applied to the run that starts at the
\* current line and ends with the maximal run; when it fails, that line alone
\* is passed through as text and the test is applied again from the next line.
\* Of a maximal run the lines before the first line from which the run passes
\* the test are passed through as text and the rest is one table; a run that
\* passes from none of its lines (one of fewer than 3 lines, for one) is
\* passed through whole.
C9_RunFromEachLine ==
    TableParsed =>
        \A r \in PipeRuns(InputLines) :
            LET m == TableStart(InputLines, r[1], r[2])
            IN /\ \A i \in r[1]..(IF m = 0 THEN r[2] ELSE m - 1) :
                     OutLines[OutIndex(InputLines, i)] = InputLines[i]
               /\ m # 0 =>
                     /\ StartsWithAt(OutLines[OutIndex(InputLines, m)], TableOpen, 1)
                     /\ EndsWith(OutLines[OutIndex(InputLines, m)], TableClose)
               /\ (m = 0 /\ r[2] = Len(InputLines)) =>
                     OutIndex(InputLines, r[2]) = Len(OutLines)

\* C9 witness: a run of four lines that fails the test as a whole and passes
\* it from its second line: a text line, then a table.
C9_Witness ==
    /\ TableParsed
    /\ text = "a|b\na|b\n|-|\na|b"
    /\ Len(OutLines) = 2
    /\ OutLines[1] = "a|b"
    /\ StartsWithAt(OutLines[2], TableOpen, 1)

\* C10: parseTable changes nothing but the lines it renders as a table: every
\* other line is in the result as it was, at its place among the lines, and a
\* text without a table to render is returned as it was.
C10_Frame ==
    TableParsed =>
        /\ Len(OutLines) =
              Len(InputLines) - Cardinality({i \in 1..Len(InputLines) : Absorbed(InputLines, i)})
        /\ \A i \in 1..Len(InputLines) :
              (~Absorbed(InputLines, i) /\ ~\E r \in Rendered(InputLines) : r[1] = i) =>
                  OutLines[OutIndex(InputLines, i)] = InputLines[i]
        /\ Rendered(InputLines) = {} => html = text

\* C10 witness: a text line with white space around it stands unchanged
\* before and after a rendered table.
C10_Witness ==
    /\ TableParsed
    /\ text = " x \na|b\n|-|\n |c||d"
    /\ Len(OutLines) = 2
    /\ OutLines[1] = " x "
    /\ StartsWithAt(OutLines[2], TableOpen, 1)

\* C11: when parseTable extracts k tables, the string parseMarkdown returns
\* holds exactly k table fragments, in the order of their source runs, and no
\* placeholder token and no table marker is left over in it.
C11_TablesRestored ==
    Rendering =>
        /\ Count(html, TableOpen) = Len(TableFragments)
        /\ InOrder(html, TableFragments, 1)
        /\ ~Includes(html, "TABLE-PLACEHOLDER-")
        /\ ~Includes(html, "###TABLE")

\* C12: of an input made of blocks set apart by blank lines (paragraphs of
\* plain text, header lines, valid pipe tables) parseMarkdown returns the
\* blocks in their order, each paragraph in its own <p>...</p>, each header and
\* each table outside any <p>.
C12_BlocksInOrder ==
    Rendering =>
        html = Concat([k \in 1..Len(InputBlocks) |-> ExpectedBlock(InputBlocks[k])])

\* C12 witness: a paragraph, a table and a paragraph of two lines have been
\* rendered.
C12_Witness ==
    /\ Rendering
    /\ text = "x\n\na|b\n|-|\nc|d\n\ny\nz"
    /\ html = "<p>x</p>" \o TableOpen
                \o "<thead><tr><th>a</th><th>b</th></tr></thead>"
                \o "<tbody><tr><td>c</td><td>d</td></tr></tbody></table>"
                \o "<p>y<br>z</p>"

\* C13: every span **t** and every span __t__ of the input is in the string
\* parseMarkdown returns as <strong>t</strong>, none of its delimiter
\* characters left, two spans on a line as two elements.
C13_BoldSpans ==
    Rendering =>
        /\ \A t \in {"t", "u"} :
              Count(html, "<strong>" \o t \o "</strong>")
                  = Count(text, "**" \o t \o "**") + Count(text, "__" \o t \o "__")
        /\ ~Includes(html, "*")
        /\ ~Includes(html, "_")

\* C14: the italic replacement running after the bold one, a span **x** is
\* never rendered as <em> elements, and a line with one italic span *a* and
\* one bold span **b** gives exactly one <em>a</em> and one <strong>b</strong>,
\* neither inside the other, no asterisk left.
C14_ItalicAfterBold ==
    Rendering =>
        /\ Count(html, "<em>") = Count(text, "*a*")
        /\ Count(html, "<em>a</em>") = Count(text, "*a*")
        /\ Count(html, "<strong>") = Count(text, "**b**") + Count(text, "**x**")
        /\ Count(html, "<strong>b</strong>") = Count(text, "**b**")
        /\ Count(html, "<strong>x</strong>") = Count(text, "**x**")
        /\ ~Includes(html, "*")

\* C14 witness: a line with the italic span right before the bold one, then a
\* line that is one bold span, have been rendered.
C14_Witness ==
    /\ Rendering
    /\ text = "*a***b**\n**x**"
    /\ html = "<p><em>a</em><strong>b</strong><br><strong>x</strong></p>"

\* C15: the tokens of the renderer cannot be confused with input text: of an
\* input whose text blocks spell a placeholder token, a table marker or the
\* markup of a table, the fragments stored as tables are those parseTable
\* rendered, each table stands where its source run stood, and each text block
\* is rendered as escaped text in its paragraph.
C15_TokensApart ==
    Rendering =>
        /\ tables = TableFragments
        /\ html = Concat([k \in 1..Len(InputBlocks) |->
                     IF Includes(InputBlocks[k], "|")
                     THEN ExpectedBlock(InputBlocks[k])
                     ELSE "<p>" \o EscapeHtml(InputBlocks[k]) \o "</p>"])

\* C16: no stage sees or changes the markup of a table: each fragment that
\* parseTable rendered is in the string parseMarkdown returns character for
\* character, whatever its cells hold.
C16_TableVerbatim ==
    Rendering =>
        \A k \in 1..Len(TableFragments) : Includes(html, TableFragments[k])

\* C17: every line '- text' or '* text' of the input becomes one <li> in the
\* string parseMarkdown returns, and each maximal run of such lines is wrapped
\* in exactly one <ul>...</ul>, runs of lines that start with '* ' included.
C17_UnorderedRuns ==
    Rendering =>
        /\ Count(html, "<li ") =
              Cardinality({i \in 1..Len(InputLines) :
                  IsUnorderedItem(InputLines[i]) \/ IsOrderedItem(InputLines[i])})
        /\ Count(html, "<ul>") = Cardinality(UnorderedRuns(InputLines))
        /\ Count(html, "</ul>") = Cardinality(UnorderedRuns(InputLines))

\* C18: each maximal run of lines '<digits>. text' is wrapped in exactly one
\* <ol>...</ol>, and two runs with a line of another kind between them (a text
\* line, an unordered item, a blank line) give two <ol> elements.
C18_OrderedRuns ==
    Rendering =>
        /\ Count(html, "<ol>") = Cardinality(OrderedRuns(InputLines))
        /\ Count(html, "</ol>") = Cardinality(OrderedRuns(InputLines))

\* C19: text between two fences is rendered as one <pre><code>...</code></pre>
\* and, the fenced blocks being replaced before the inline code spans, is
\* never taken for an inline code span: text between single backticks inside a
\* fenced block gives no <code> element inside the block's own.
C19_FencedCode ==
    Rendering =>
        /\ Count(html, "<pre><code>") = Count(text, Fence) \div 2
        /\ Count(html, "</code></pre>") = Count(text, Fence) \div 2
        /\ ~NestedCode(html)

\* C20: in parseTable the cells of a header or data row are its trimmed fields
\* between pipes, only the empty first and last field left out: a row that
\* opens and closes with a pipe gives no cell for them, and every field
\* between the first and the last pipe gives one cell, in order.
C20_InteriorFields ==
    TableParsed =>
        \A r \in Rendered(InputLines) :
            OutLines[OutIndex(InputLines, r[1])] = FieldTable(InputLines, r[1], r[2])

\* C21: at most one AI request is in flight at any time: while a call of
\* handleSendMessage awaits sendMessageToAI the input is empty and the input
\* and the button are disabled, so that no click and no Enter keypress starts
\* a second call; in the chat window every user message is followed by its AI
\* reply before the next user message is appended.
C21_OneInFlight ==
    /\ Cardinality(InFlight) <= 1
    /\ InFlight # {} =>
          /\ chatInput = [value |-> "", disabled |-> TRUE]
          /\ sendButton.disabled
    /\ \A i \in 1..(Len(calls) - 1) : calls[i].at = "returned"
    /\ Cardinality(MessagesOf("user")) = Len(calls)
    /\ Cardinality(MessagesOf("ai")) = Cardinality(ReturnedCalls)
    /\ \A k \in 1..Len(chatWindow) :
          chatWindow[k].sender = IF k % 2 = 1 THEN "user" ELSE "ai"

\* C21 witness: the first call has appended its reply and the request of the
\* second is in flight, the controls disabled.
C21_Witness ==
    /\ Len(calls) = 2
    /\ calls[1].at = "returned"
    /\ calls[2].at = "fetch"
    /\ [k \in 1..Len(chatWindow) |-> chatWindow[k].sender] = <<"user", "ai", "user">>
    /\ chatInput.disabled
    /\ sendButton.disabled

\* C22: every call of handleSendMessage with a message that is not empty
\* appends exactly one AI message, hides the typing indicator and enables the
\* input and the send button again, whatever becomes of the request:
\* sendMessageToAI always resolves to a string and never rejects, so the
\* controls are never left disabled. Stated of the calls that have come to
\* rest: once nothing is in flight, no call has been rejected, every call has
\* appended its AI message, the indicator is hidden and the controls are
\* enabled.
C22_NeverLeftDisabled ==
    /\ \A i \in 1..Len(calls) : calls[i].at # "rejected"
    /\ \A i \in 1..Len(calls) : calls[i].at \in {"resolved", "rendering", "returned"} =>
          calls[i].reply \in STRING
    /\ InFlight = {} =>
          /\ Cardinality(MessagesOf("ai")) = Len(calls)
          /\ typingIndicator = "none"
          /\ ~chatInput.disabled
          /\ ~sendButton.disabled

====
